---------------------------- MODULE Spec2Model ----------------------------
(***************************************************************************)
(* A model of FileServerBot (src/server.py): the shared session (current   *)
(* directory and bookmarks), the command handlers that navigate and change *)
(* the filesystem, and the two-step confirmation of rm and kill through    *)
(* inline-button callbacks.                                                *)
(*                                                                         *)
(* Strings are sequences of one-character strings, so that the building    *)
(* and re-parsing of callback data and of path strings is computed as the  *)
(* code computes it.  A filesystem path is the sequence of its component   *)
(* names; the filesystem maps each existing path to its kind.              *)
(***************************************************************************)
EXTENDS Naturals, Integers, Sequences, FiniteSets, Bags, TLC

(***************************************************************************)
(* Bounds of the model.                                                    *)
(***************************************************************************)
\* updates the bot receives in one run (commands and button presses) plus
\* the events of other processes of the host during it
MaxUpdates == 3

(***************************************************************************)
(* Strings.                                                                *)
(***************************************************************************)
SLASH == "/"
USCORE == "_"
SPACE == " "

\* s.startswith(p)
StartsWith(s, p) ==
    /\ Len(s) >= Len(p)
    /\ SubSeq(s, 1, Len(p)) = p

\* s.split(c): the pieces between the occurrences of c, empty ones included
RECURSIVE SplitFrom(_, _, _, _, _)
SplitFrom(s, c, i, cur, acc) ==
    IF i > Len(s) THEN Append(acc, cur)
    ELSE IF s[i] = c THEN SplitFrom(s, c, i + 1, <<>>, Append(acc, cur))
    ELSE SplitFrom(s, c, i + 1, Append(cur, s[i]), acc)

Split(s, c) == SplitFrom(s, c, 1, <<>>, <<>>)

\* c.join(parts)
RECURSIVE Join(_, _)
Join(parts, c) ==
    IF parts = <<>> THEN <<>>
    ELSE IF Len(parts) = 1 THEN parts[1]
    ELSE parts[1] \o <<c>> \o Join(Tail(parts), c)

\* parts[k:] of a Python list (k counted from 0)
DropFirst(parts, k) ==
    IF Len(parts) <= k THEN <<>> ELSE SubSeq(parts, k + 1, Len(parts))

DigitChars == {"0", "1", "2", "3", "4", "5", "6", "7", "8", "9"}

DigitVal(c) ==
    CASE c = "0" -> 0 [] c = "1" -> 1 [] c = "2" -> 2 [] c = "3" -> 3
      [] c = "4" -> 4 [] c = "5" -> 5 [] c = "6" -> 6 [] c = "7" -> 7
      [] c = "8" -> 8 [] c = "9" -> 9

\* int(s) succeeds (no sign, no blanks in the inputs of the model)
IsNumeric(s) == s # <<>> /\ \A i \in 1..Len(s) : s[i] \in DigitChars

RECURSIVE IntOf(_)
IntOf(s) ==
    IF s = <<>> THEN 0
    ELSE 10 * IntOf(SubSeq(s, 1, Len(s) - 1)) + DigitVal(s[Len(s)])

\* str(n) of a natural number
RECURSIVE StrOf(_)
StrOf(n) ==
    LET d == CHOOSE c \in DigitChars : DigitVal(c) = n % 10
    IN  IF n < 10 THEN <<d>> ELSE StrOf(n \div 10) \o <<d>>

(***************************************************************************)
(* Paths.                                                                  *)
(***************************************************************************)
Root == <<>>

\* str of an absolute normalised path: "/" for the root, "/a/b" otherwise
RECURSIVE PathStr(_)
PathStr(p) ==
    IF p = <<>> THEN <<SLASH>>
    ELSE IF Len(p) = 1 THEN <<SLASH>> \o p[1]
    ELSE PathStr(SubSeq(p, 1, Len(p) - 1)) \o <<SLASH>> \o p[Len(p)]

\* os.path.join(a, b) on POSIX
OsPathJoin(a, b) ==
    IF StartsWith(b, <<SLASH>>) THEN b
    ELSE IF a = <<>> \/ a[Len(a)] = SLASH THEN a \o b
    ELSE a \o <<SLASH>> \o b

\* os.path.normpath of an absolute path string, as the sequence of the
\* components that remain: empty components and "." are dropped and ".."
\* removes the component before it (nothing at the root).  Without symbolic
\* links this is also the path the kernel resolves an existing path to.
RECURSIVE NormFrom(_, _, _)
NormFrom(parts, i, acc) ==
    IF i > Len(parts) THEN acc
    ELSE IF parts[i] = <<>> \/ parts[i] = <<".">> THEN NormFrom(parts, i + 1, acc)
    ELSE IF parts[i] = <<".", ".">>
         THEN NormFrom(parts, i + 1,
                       IF acc = <<>> THEN acc ELSE SubSeq(acc, 1, Len(acc) - 1))
    ELSE NormFrom(parts, i + 1, Append(acc, parts[i]))

NormPath(s) == NormFrom(Split(s, SLASH), 1, <<>>)

\* Path(p).parent: the root is its own parent
Parent(p) == IF p = <<>> THEN <<>> ELSE SubSeq(p, 1, Len(p) - 1)

\* os.path.basename of a normalised path
BaseName(p) == p[Len(p)]

IsPrefix(p, q) == Len(p) <= Len(q) /\ SubSeq(q, 1, Len(p)) = p


(***************************************************************************)
(* The filesystem of the host.  The model follows a fixed universe of      *)
(* paths; a command that would create a path outside of it is not taken.   *)
(* A node is a regular file ("file"), a directory ("dir") or a directory   *)
(* that cannot be listed ("xdir": os.listdir raises PermissionError).      *)
(***************************************************************************)
N_d == <<"d">>
N_a_b == <<"a", "_", "b">>
N_a_sp_b == <<"a", " ", "b">>
N_d_zip == <<"d", ".", "z", "i", "p">>

Names == {N_d, N_a_b, N_a_sp_b, N_d_zip}

Paths == {<<n>> : n \in Names} \cup {<<N_d, n>> : n \in {N_d, N_a_b, N_d_zip}}

Kinds == {"file", "dir", "xdir"}

\* the directory tree at start-up
InitFs ==
    (<<N_d>> :> "dir") @@ (<<N_d, N_d>> :> "dir") @@ (<<N_d, N_a_b>> :> "file")
      @@ (<<N_a_b>> :> "xdir") @@ (<<N_a_sp_b>> :> "file")

\* a value that is no path
NoPath == <<<<>>>>

Kind(f, p) ==
    IF p = Root THEN "dir" ELSE IF p \in DOMAIN f THEN f[p] ELSE "none"

\* os.path.exists
Exists(f, p) == Kind(f, p) # "none"

\* os.path.isdir
IsDir(f, p) == Kind(f, p) \in {"dir", "xdir"}

\* os.listdir(p) succeeds; os.access(p, os.R_OK) of a directory
Listable(f, p) == Kind(f, p) = "dir"

Subtree(f, p) == {q \in DOMAIN f : IsPrefix(p, q)}

Children(f, p) == {q \in DOMAIN f : Parent(q) = p /\ q # p}

\* p is, or contains, a directory that cannot be listed
ContainsX(f, p) == \E q \in Subtree(f, p) : f[q] = "xdir"

Without(f, S) == [q \in DOMAIN f \ S |-> f[q]]

Outcome(f, ok) == [fs |-> f, ok |-> ok]

\* the existing proper ancestors of p are all directories
AncestorsAreDirs(f, p) ==
    \A k \in 0..(Len(p) - 1) :
        LET a == SubSeq(p, 1, k) IN Exists(f, a) => Kind(f, a) = "dir"

\* the missing proper ancestors of p, created as directories
MissingAncestors(f, p) ==
    {SubSeq(p, 1, k) : k \in 1..(Len(p) - 1)} \ (DOMAIN f \cup {Root})

\* shutil.rmtree(p) of a directory: the sets of paths it may have deleted
\* when it returns or raises.  It deletes the entries of a directory in the
\* order the host lists them and raises at the first directory it cannot
\* list, leaving that directory, its ancestors and the entries not yet
\* visited in place.
RECURSIVE RmTreeDeleted(_, _)
RmTreeDeleted(f, p) ==
    IF Kind(f, p) = "xdir" THEN {[del |-> {}, ok |-> FALSE]}
    ELSE IF Kind(f, p) = "file" THEN {[del |-> {p}, ok |-> TRUE]}
    ELSE LET failing == {c \in Children(f, p) : ContainsX(f, c)}
         IN  IF failing = {}
             THEN {[del |-> Subtree(f, p), ok |-> TRUE]}
             ELSE {[del |-> UNION {Subtree(f, b) : b \in B} \cup r.del,
                    ok |-> FALSE] :
                      <<B, r>> \in UNION {
                          (SUBSET (Children(f, p) \ failing)) \X RmTreeDeleted(f, c)
                             : c \in failing}}

RmTree(f, p) ==
    {Outcome(Without(f, r.del), r.ok) : r \in RmTreeDeleted(f, p)}

\* os.remove(p)
OsRemove(f, p) ==
    IF Kind(f, p) = "file" THEN Outcome(Without(f, {p}), TRUE)
    ELSE Outcome(f, FALSE)

\* os.path.isdir(full_path): shutil.rmtree, else os.remove
RemoveOutcomes(f, full_path) ==
    IF IsDir(f, full_path) THEN RmTree(f, full_path) ELSE {OsRemove(f, full_path)}

\* os.makedirs(p)
MakeDirs(f, p) ==
    IF Exists(f, p) \/ ~AncestorsAreDirs(f, p) THEN Outcome(f, FALSE)
    ELSE Outcome([q \in MissingAncestors(f, p) \cup {p} |-> "dir"] @@ f, TRUE)

\* the nodes under src that shutil.copytree copies: those not inside (and
\* not being) a directory that cannot be listed
Copied(f, src) ==
    {q \in Subtree(f, src) \ {src} :
        \A k \in (Len(src) + 1)..Len(q) : f[SubSeq(q, 1, k)] # "xdir"}

Rebase(q, src, dst) == dst \o SubSeq(q, Len(src) + 1, Len(q))

\* shutil.copytree(src, dst) of a directory src
CopyTree(f, src, dst) ==
    IF Kind(f, src) = "xdir" \/ Exists(f, dst) \/ ~AncestorsAreDirs(f, dst)
    THEN Outcome(f, FALSE)
    ELSE Outcome([q \in {Rebase(c, src, dst) : c \in Copied(f, src)} |->
                     f[CHOOSE c \in Copied(f, src) : Rebase(c, src, dst) = q]]
                   @@ [q \in MissingAncestors(f, dst) \cup {dst} |-> "dir"]
                   @@ f,
                 ~ContainsX(f, src))

\* shutil.copy2(src, dst) of a file src
CopyFile(f, src, dst) ==
    LET final == IF IsDir(f, dst) THEN Append(dst, BaseName(src)) ELSE dst
    IN  IF \/ final = src
           \/ IsDir(f, final)
           \/ Kind(f, Parent(final)) # "dir"
        THEN Outcome(f, FALSE)
        ELSE Outcome((final :> "file") @@ f, TRUE)

\* os.rename(src, dst) where it succeeds: the subtree of src moves to dst
Renamed(f, src, dst) ==
    [q \in {Rebase(c, src, dst) : c \in Subtree(f, src)} |->
        f[CHOOSE c \in Subtree(f, src) : Rebase(c, src, dst) = q]]
      @@ Without(f, Subtree(f, src))

\* shutil.move(src, dst) of an existing src
Move(f, src, dst) ==
    LET real == IF IsDir(f, dst) /\ src # dst
                THEN Append(dst, BaseName(src)) ELSE dst
    IN  IF src = dst THEN {Outcome(f, TRUE)}
        ELSE IF IsDir(f, dst) /\ Exists(f, real) THEN {Outcome(f, FALSE)}
        ELSE IF IsDir(f, src)
             THEN IF Exists(f, real) \/ IsPrefix(src, real) THEN {Outcome(f, FALSE)}
                  ELSE IF Kind(f, Parent(real)) = "dir"
                       THEN {Outcome(Renamed(f, src, real), TRUE)}
                       ELSE \* rename fails: copy the tree, then remove the source
                            LET c == CopyTree(f, src, real)
                            IN  IF c.ok THEN RmTree(c.fs, src) ELSE {c}
             ELSE IF Kind(f, Parent(real)) = "dir"
                  THEN {Outcome(Renamed(f, src, real), TRUE)}
                  ELSE {Outcome(f, FALSE)}

\* every path of f is in the universe, with directories above it
WellFormed(f) ==
    /\ DOMAIN f \subseteq Paths
    /\ \A q \in DOMAIN f : f[q] \in Kinds /\ Kind(f, Parent(q)) \in {"dir", "xdir"}

(***************************************************************************)
(* Inputs: callers, command arguments (context.args, the words of the      *)
(* message after the command) and process ids.                             *)
(***************************************************************************)
Users == {1, 2}

\* the allowed_users lists the bot is constructed with: the empty list of
\* __main__, and a list of one user
AllowedLists == {{}, {1}}

Pids == {7}

T_abs_d == <<SLASH>> \o N_d
T_dotdot == <<".", ".">>
T_home == <<"~">>
T_HOME == <<"$", "H", "O", "M", "E">>

\* arguments naming a path: "d", "a_b", "a b" (two words), "/d", and none
PathArgs == {<<>>, <<N_d>>, <<N_a_b>>, << <<"a">>, <<"b">> >>, <<T_abs_d>>}

\* "/d/../d", an absolute path that is not normalized
T_abs_d_up_d == T_abs_d \o <<SLASH>> \o T_dotdot \o T_abs_d

CdArgs == PathArgs \cup {<<T_dotdot>>, <<T_home>>, <<T_HOME>>, <<T_abs_d_up_d>>}

\* arguments of cp and mv: none, one, or a source and a destination
PairArgs == {<<>>, <<N_d>>, <<N_a_b, N_d>>, <<N_d, N_a_b>>}

T_add == <<"a", "d", "d">>
T_list == <<"l", "i", "s", "t">>
T_go == <<"g", "o">>
T_del == <<"d", "e", "l">>
T_k == <<"k">>
T_j == <<"j">>

BookmarkArgs ==
    {<<>>, <<T_add>>, <<T_add, T_k>>, <<T_list>>, <<T_go>>, <<T_go, T_k>>,
     <<T_del>>, <<T_del, T_k>>, <<T_k>>}

KillArgs == {<<>>, <<StrOf(7)>>, <<T_k>>}

\* arguments of find and search: none, or the term "d"
TermArgs == {<<>>, <<N_d>>}

\* arguments of getzip: none, or the folder "d"
ZipArgs == {<<>>, <<N_d>>}

S_zip == <<".", "z", "i", "p">>

\* Path.home() of the account the bot runs under
HomeDir == <<N_d>>

\* str.lower() on the letters the inputs of the model use
LowerChar(c) ==
    CASE c = "A" -> "a" [] c = "B" -> "b" [] c = "D" -> "d" [] c = "G" -> "g" [] c = "O" -> "o"
      [] c = "L" -> "l" [] c = "E" -> "e" [] c = "T" -> "t" [] c = "X" -> "x"
      [] c = "U" -> "u" [] OTHER -> c

Lower(s) == [i \in 1..Len(s) |-> LowerChar(s[i])]

(***************************************************************************)
(* Listings: the order of the entries of ls and of tree.                   *)
(***************************************************************************)
\* the characters of the names of the model, in the order of their code
\* points
CodePoints ==
    <<"\n", " ", ".", "/", "A", "B", "D", "E", "G", "H", "L", "M", "O", "T",
      "U", "X", "_", "a", "b", "d", "i", "j", "k", "l", "m", "n", "o", "p",
      "t", "x", "z", "0xFF">>

CharRank(c) == CHOOSE i \in 1..Len(CodePoints) : CodePoints[i] = c

\* s < t of two str
StrLess(s, t) ==
    LET n == IF Len(s) < Len(t) THEN Len(s) ELSE Len(t)
        diff == {i \in 1..n : s[i] # t[i]}
    IN  IF diff = {} THEN Len(s) < Len(t)
        ELSE LET i == CHOOSE j \in diff : \A k \in diff : j <= k
             IN  CharRank(s[i]) < CharRank(t[i])

\* os.path.isfile
IsFile(f, p) == Kind(f, p) \in {"file", "xfile"}

\* the 'type' list_directory gives an entry: 'file' when os.path.isfile is
\* true, 'dir' otherwise
LsType(f, p) == IF IsFile(f, p) THEN "file" ELSE "dir"

\* the sort key of list_directory, (x['type'] != 'dir', x['name'].lower()),
\* compared as tuples
LsLess(f, p, q) ==
    LET a == LsType(f, p) # "dir"
        b == LsType(f, q) # "dir"
    IN  \/ ~a /\ b
        \/ a = b /\ StrLess(Lower(BaseName(p)), Lower(BaseName(q)))

\* the entries of directory dir in the order list_directory shows them (no
\* two names of the model are equal up to case, so the key decides)
LsListing(f, dir) ==
    LET S == Children(f, dir)
    IN  [i \in 1..Cardinality(S) |->
            CHOOSE x \in S : Cardinality({y \in S : LsLess(f, y, x)}) = i - 1]

\* sorted(path.glob("*")): paths of one directory compare by their names;
\* a directory that cannot be listed yields nothing
Globbed(f, dir) ==
    LET S == IF Listable(f, dir) THEN Children(f, dir) ELSE {}
    IN  [i \in 1..Cardinality(S) |->
            CHOOSE x \in S :
               Cardinality({y \in S : StrLess(BaseName(y), BaseName(x))}) = i - 1]

\* add_tree: the lines appended for directory path at the given depth, each
\* with the entry it shows and the level of that entry
RECURSIVE AddTree(_, _, _, _), AddTreeFrom(_, _, _, _, _)
\* a faulty add_tree, which stops one level late
AddTreeLate(f, path, depth, max_depth) ==
    IF depth > max_depth + 1 THEN <<>>
    ELSE AddTreeFrom(f, Globbed(f, path), 1, depth, max_depth)

AddTree(f, path, depth, max_depth) ==
    IF depth > max_depth THEN <<>>
    ELSE AddTreeFrom(f, Globbed(f, path), 1, depth, max_depth)

AddTreeFrom(f, paths, i, depth, max_depth) ==
    IF i > Len(paths) THEN <<>>
    ELSE <<[path |-> paths[i], level |-> depth, dir |-> IsDir(f, paths[i])]>>
           \o (IF IsDir(f, paths[i])
               THEN AddTree(f, paths[i], depth + 1, max_depth) ELSE <<>>)
           \o AddTreeFrom(f, paths, i + 1, depth, max_depth)

(***************************************************************************)
(* Walks: what os.walk yields below a directory, and the results find and  *)
(* search build from it.  The order in which the host lists a directory is *)
(* not fixed, so the results are held as a set.                            *)
(***************************************************************************)
\* t in s of two str
Contains(s, t) ==
    \E i \in 0..(Len(s) - Len(t)) : SubSeq(s, i + 1, i + Len(t)) = t

\* line.strip() on the blanks of the model
RECURSIVE Strip(_)
Strip(s) ==
    IF s = <<>> THEN s
    ELSE IF s[1] = SPACE THEN Strip(Tail(s))
    ELSE IF s[Len(s)] = SPACE THEN Strip(SubSeq(s, 1, Len(s) - 1))
    ELSE s

\* os.path.splitext(name)[1]: from the last dot on, where a character other
\* than a dot stands before it; else empty
SplitExt(name) ==
    LET dots == {i \in 1..Len(name) : name[i] = "."}
        last_dot == CHOOSE i \in dots : \A j \in dots : j <= i
    IN  IF dots = {} THEN <<>>
        ELSE IF \A j \in 1..(last_dot - 1) : name[j] = "." THEN <<>>
        ELSE SubSeq(name, last_dot, Len(name))

\* os.path.relpath(p, base) of two normalised paths, as components
RelPath(p, base) ==
    LET common == {k \in 0..Len(base) : k <= Len(p) /\ SubSeq(p, 1, k) = SubSeq(base, 1, k)}
        k == CHOOSE c \in common : \A d \in common : d <= c
    IN  [i \in 1..(Len(base) - k) |-> T_dotdot] \o SubSeq(p, k + 1, Len(p))

\* the entries os.walk(top) yields in its lists dirs and files: everything
\* below top that is reached through directories that can be listed (a
\* directory that cannot be listed is named in dirs and passed over); nothing
\* when top is no such directory
Walked(f, top) ==
    IF ~Listable(f, top) THEN {}
    ELSE {q \in Subtree(f, top) \ {top} :
             \A k \in Len(top)..(Len(q) - 1) : Listable(f, SubSeq(q, 1, k))}

\* the entries os.walk yields in files
WalkedFiles(f, top) == {q \in Walked(f, top) : ~IsDir(f, q)}

\* the results of search_files: an entry whose name holds the term, case
\* ignored, with its path relative to top
FindResults(f, top, term) ==
    {[path |-> RelPath(q, top), dir |-> IsDir(f, q)] :
        q \in {w \in Walked(f, top) : Contains(Lower(BaseName(w)), term)}}

(***************************************************************************)
(* The contents of files.  A file holds a sequence of bytes, here the      *)
(* characters of the model and one byte that is no UTF-8 text; what a file *)
(* holds goes with its name.                                               *)
(***************************************************************************)
\* bytes a read call returns at most (8192 in the code and in the text
\* layer of open)
ChunkSize == 2

NL == "\n"

\* a byte that does not decode as UTF-8
BadByte == "0xFF"

N_t_txt == <<"t", ".", "t", "x", "t">>
N_U_TXT == <<"U", ".", "T", "X", "T">>
N_b_bin == <<"b", ".", "b", "i", "n">>
N_p_txt == <<"p", ".", "t", "x", "t">>
N_q_txt == <<"q", ".", "t", "x", "t">>

FileBytes(name) ==
    CASE name = N_t_txt -> <<"x", "\n", "A", " ", "T", "o", "d", "o", " ", "b", "\n">>
      [] name = N_U_TXT -> <<" ", "t", "o", "d", "o", " ">>
      [] name = N_b_bin -> <<"x", "\n", "A", " ", "T", "o", "d", "o", " ", "b", "\n">>
      [] name = N_p_txt -> <<"t", "o", "d", "o", "\n", "x", "x", "x", "x">> \o <<BadByte>>
      [] name = N_q_txt -> <<BadByte>> \o <<"\n", "t", "o", "d", "o", "\n">>
      [] OTHER -> <<"x", "\n", "A", " ", "T", "o", "d", "o", " ", "b", "\n">>

\* f.read(size) from position pos (counted from 1)
ReadChunk(bytes, pos, size) ==
    SubSeq(bytes, pos, IF pos + size - 1 < Len(bytes) THEN pos + size - 1 ELSE Len(bytes))

\* the first index of c in s, 0 when there is none
IndexOf(s, c) ==
    LET at == {i \in 1..Len(s) : s[i] = c}
    IN  IF at = {} THEN 0 ELSE CHOOSE i \in at : \A j \in at : i <= j

\* iterating over a file opened as UTF-8 text: the lines yielded, each
\* without its line end, and whether the end of the file was reached (ok) or
\* a chunk failed to decode.  The text layer reads and decodes one chunk at
\* a time, and only when the text decoded so far holds no complete line.
RECURSIVE ReadLines(_, _, _, _)
ReadLines(bytes, pos, buf, acc) ==
    IF IndexOf(buf, NL) # 0
    THEN ReadLines(bytes, pos, SubSeq(buf, IndexOf(buf, NL) + 1, Len(buf)),
                   Append(acc, SubSeq(buf, 1, IndexOf(buf, NL) - 1)))
    ELSE IF pos > Len(bytes)
    THEN [lines |-> IF buf = <<>> THEN acc ELSE Append(acc, buf), ok |-> TRUE]
    ELSE LET chunk == ReadChunk(bytes, pos, ChunkSize)
         IN  IF IndexOf(chunk, BadByte) # 0 THEN [lines |-> acc, ok |-> FALSE]
             ELSE ReadLines(bytes, pos + Len(chunk), buf \o chunk, acc)

\* text_extensions of search_content
TextExtensions ==
    {<<".", "t", "x", "t">>, <<".", "l", "o", "g">>, <<".", "p", "y">>,
     <<".", "j", "a", "v", "a">>, <<".", "c", "p", "p">>, <<".", "h">>,
     <<".", "c">>, <<".", "j", "s">>, <<".", "h", "t", "m", "l">>,
     <<".", "c", "s", "s">>, <<".", "x", "m", "l">>, <<".", "j", "s", "o", "n">>,
     <<".", "m", "d">>, <<".", "i", "n", "i">>, <<".", "c", "o", "n", "f">>}

\* a faulty search of one file, which tells upper case from lower case in
\* the lines
SearchFileCased(f, p, top, text) ==
    IF Kind(f, p) = "xfile" THEN {}
    ELSE LET lines == ReadLines(FileBytes(BaseName(p)), 1, <<>>, <<>>).lines
         IN  {[path |-> RelPath(p, top), line |-> i, text |-> Strip(lines[i])] :
                 i \in {j \in 1..Len(lines) : Contains(lines[j], text)}}

\* the results search_content appends for one file of the walk: none when
\* open raises PermissionError ("xfile"); else one for each line yielded
\* that holds the text, case ignored
SearchFile(f, p, top, text) ==
    IF Kind(f, p) = "xfile" THEN {}
    ELSE LET lines == ReadLines(FileBytes(BaseName(p)), 1, <<>>, <<>>).lines
         IN  {[path |-> RelPath(p, top), line |-> i, text |-> Strip(lines[i])] :
                 i \in {j \in 1..Len(lines) : Contains(Lower(lines[j]), text)}}

\* the results of search_content over the files of the walk whose extension
\* is one of text_extensions
SearchResults(f, top, text) ==
    UNION {SearchFile(f, p, top, text) :
              p \in {w \in WalkedFiles(f, top) :
                        Lower(SplitExt(BaseName(w))) \in TextExtensions}}

\* the value of a byte
Ord(c) == CharRank(c) - 1

\* update(chunk) of the two hash states, which here are small numbers: each
\* byte of the chunk enters the state in its turn
RECURSIVE Md5Update(_, _)
Md5Update(h, chunk) ==
    IF chunk = <<>> THEN h
    ELSE Md5Update((h * 3 + Ord(chunk[1]) + 1) % 256, Tail(chunk))

RECURSIVE Sha256Update(_, _)
Sha256Update(h, chunk) ==
    IF chunk = <<>> THEN h
    ELSE Sha256Update((h * 7 + Ord(chunk[1]) + 1) % 65536, Tail(chunk))

HexChars ==
    <<"0", "1", "2", "3", "4", "5", "6", "7", "8", "9", "a", "b", "c", "d", "e", "f">>

\* hexdigest(): the state in lowercase hexadecimal digits, width of them
RECURSIVE HexDigest(_, _)
HexDigest(h, width) ==
    IF width = 0 THEN <<>>
    ELSE HexDigest(h \div 16, width - 1) \o <<HexChars[(h % 16) + 1]>>

\* the loop of calculate_hash: chunks are read until one is empty, and each
\* is fed to both states
RECURSIVE HashChunks(_, _, _, _), HashChunksFull(_, _, _, _)
\* a faulty loop, which stops at the first chunk that is not full
HashChunksFull(bytes, pos, md5, sha256) ==
    LET chunk == ReadChunk(bytes, pos, ChunkSize)
    IN  IF Len(chunk) < ChunkSize
        THEN [md5 |-> HexDigest(md5, 2), sha256 |-> HexDigest(sha256, 4)]
        ELSE HashChunksFull(bytes, pos + Len(chunk),
                            Md5Update(md5, chunk), Sha256Update(sha256, chunk))

HashChunks(bytes, pos, md5, sha256) ==
    LET chunk == ReadChunk(bytes, pos, ChunkSize)
    IN  IF chunk = <<>>
        THEN [md5 |-> HexDigest(md5, 2), sha256 |-> HexDigest(sha256, 4)]
        ELSE HashChunks(bytes, pos + Len(chunk),
                        Md5Update(md5, chunk), Sha256Update(sha256, chunk))

(***************************************************************************)
(* Callback data of the inline keyboards.                                  *)
(***************************************************************************)
S_rm_yes == <<"r", "m", "_", "y", "e", "s", "_">>
S_rm_no == <<"r", "m", "_", "n", "o">>
S_kill_yes == <<"k", "i", "l", "l", "_", "y", "e", "s", "_">>
S_kill_no == <<"k", "i", "l", "l", "_", "n", "o">>
S_rm == <<"r", "m", "_">>
S_kill == <<"k", "i", "l", "l", "_">>

\* callback data a client can send without the bot having offered it
ForgedData == {S_rm_yes \o N_d, S_kill_yes \o StrOf(7)}

(***************************************************************************)
(* State.                                                                  *)
(***************************************************************************)
VARIABLES
    allowed_users,   \* self.allowed_users
    current_dir,     \* self.current_dir, as the components of the path
    bookmarks,       \* self.bookmarks: name -> path
    bookmarks_file,  \* the content of bookmarks.json
    fs,              \* the filesystem of the host
    procs,           \* the ids of the running processes of the host
    buttons,         \* the confirmation messages sent, in order
    tasks,           \* callback queries delivered, their handler not yet run
    running,         \* handlers of getzip stopped at an await, with their locals
    last,            \* the step taken last and the reply it sent
    updates          \* updates received and events of the host so far

vars == <<allowed_users, current_dir, bookmarks, bookmarks_file, fs, procs,
          buttons, tasks, running, last, updates>>

session == <<current_dir, bookmarks, bookmarks_file>>
host == <<fs, procs>>
pending == <<buttons, tasks>>

\* the authorization predicate: the caller is on the list, or the list is
\* empty
Authorized(u) == allowed_users = {} \/ u \in allowed_users

\* the record of a step: the handler (op), whether the authorization
\* predicate admits the caller of a command, the reply sent (res) and, for
\* a callback, the confirmation message it belongs to (0: none) and how many
\* accepting callbacks of that message have run, this one included.  The
\* record of a cd that got as far as resolving also holds the path given
\* (path), that of ls and tree the lines shown (lines).
Step(op, admitted, res, btn, nth) ==
    [op |-> op, admitted |-> admitted, res |-> res, btn |-> btn, nth |-> nth]

\* one more update is taken from the queue, or one more event happens
Received ==
    /\ updates < MaxUpdates
    /\ updates' = updates + 1

Reply(op, u, res) == last' = Step(op, Authorized(u), res, 0, 0)

\* load_bookmarks: what bookmarks.json holds when the bot is constructed,
\* the bookmarks of an earlier run
StoredBookmarks == {(T_k :> <<N_d, N_d>>) @@ (T_j :> <<N_d, N_d>>)}

Init ==
    /\ allowed_users \in AllowedLists
    /\ current_dir = Root
    /\ bookmarks_file \in StoredBookmarks
    /\ bookmarks = bookmarks_file
    /\ fs = InitFs
    /\ procs = Pids
    /\ buttons = <<>>
    /\ tasks = EmptyBag
    /\ running = EmptyBag
    /\ last = Step("init", TRUE, "none", 0, 0)
    /\ updates = 0

\* a faulty check_auth, which lets every caller through
CheckAuthOpen(u) == TRUE

\* a faulty check_auth, which admits only the callers on the list
CheckAuthListed(u) == u \in allowed_users

\* check_auth: the caller is rejected when the list is not empty and does
\* not hold the caller
CheckAuth(u) == ~(allowed_users # {} /\ u \notin allowed_users)

\* os.path.join(self.current_dir, name), as the path it denotes
InCurrentDir(name) == NormPath(OsPathJoin(PathStr(current_dir), name))

(***************************************************************************)
(* Navigation and bookmarks.                                               *)
(***************************************************************************)
\* a faulty choice of the path string, without the rule of the home
\* directory
CdTargetHomeless(path) ==
    IF path = T_dotdot THEN PathStr(Parent(current_dir))
    ELSE IF StartsWith(path, <<SLASH>>) THEN path
    ELSE OsPathJoin(PathStr(current_dir), path)

\* the path string change_directory builds from its argument
CdTarget(path) ==
    IF path = T_dotdot THEN PathStr(Parent(current_dir))
    ELSE IF path = T_home \/ path = T_HOME THEN PathStr(HomeDir)
    ELSE IF StartsWith(path, <<SLASH>>) THEN path
    ELSE OsPathJoin(PathStr(current_dir), path)

\* faulty checks of change_directory, without the attempt to list
CdCheckUnlisted(f, p) ==
    IF ~Exists(f, p) THEN "NotExists"
    ELSE IF ~IsDir(f, p) THEN "NotDir"
    ELSE "Ok"

\* the three checks of change_directory on the resolved path
CdCheck(f, p) ==
    IF ~Exists(f, p) THEN "NotExists"
    ELSE IF ~IsDir(f, p) THEN "NotDir"
    ELSE IF ~Listable(f, p) THEN "NoPermission"
    ELSE "Ok"

change_directory(u, args) ==
    /\ Received
    /\ UNCHANGED <<allowed_users, running, bookmarks, bookmarks_file, host, pending>>
    /\ IF ~CheckAuth(u)
       THEN Reply("cd", u, "Denied") /\ UNCHANGED current_dir
       ELSE IF args = <<>>
       THEN Reply("cd", u, "Usage") /\ UNCHANGED current_dir
       ELSE LET path == Join(args, SPACE)
                new_path == NormPath(CdTarget(path))
                res == CdCheck(fs, new_path)
            IN  /\ current_dir' = IF res = "Ok" THEN new_path ELSE current_dir
                /\ last' = [op |-> "cd", admitted |-> Authorized(u), res |-> res,
                            btn |-> 0, nth |-> 0, path |-> path]

up_directory(u) ==
    /\ Received
    /\ UNCHANGED <<allowed_users, running, bookmarks, bookmarks_file, host, pending>>
    /\ IF ~CheckAuth(u)
       THEN Reply("up", u, "Denied") /\ UNCHANGED current_dir
       ELSE LET parent_path == Parent(current_dir)
            IN  IF Exists(fs, parent_path) /\ Kind(fs, parent_path) # "xdir"
                THEN /\ current_dir' = parent_path
                     /\ Reply("up", u, "Ok")
                ELSE /\ UNCHANGED current_dir
                     /\ Reply("up", u, "CannotGoUp")

\* save_bookmarks
SaveBookmarks(b) == bookmarks_file' = b

\* a faulty "add", which keeps an earlier entry of the name
bookmark_add_new(u, name) ==
    /\ bookmarks' = bookmarks @@ (name :> current_dir)
    /\ SaveBookmarks(bookmarks')
    /\ UNCHANGED current_dir
    /\ Reply("bookmark", u, "Ok")

\* a faulty "add", which does not save the mapping
bookmark_add_unsaved(u, name) ==
    /\ bookmarks' = (name :> current_dir) @@ bookmarks
    /\ UNCHANGED <<current_dir, bookmarks_file>>
    /\ Reply("bookmark", u, "Ok")

\* the action "add" of bookmark_handler
bookmark_add(u, name) ==
    /\ bookmarks' = (name :> current_dir) @@ bookmarks
    /\ SaveBookmarks(bookmarks')
    /\ UNCHANGED current_dir
    /\ Reply("bookmark", u, "Ok")

\* a faulty "go", which drops the bookmark it has followed
bookmark_go_once(u, name) ==
    IF name \notin DOMAIN bookmarks
    THEN Reply("bookmark", u, "NotFound") /\ UNCHANGED session
    ELSE IF Exists(fs, bookmarks[name])
    THEN /\ current_dir' = bookmarks[name]
         /\ bookmarks' = [n \in DOMAIN bookmarks \ {name} |-> bookmarks[n]]
         /\ UNCHANGED bookmarks_file
         /\ Reply("bookmark", u, "Went")
    ELSE Reply("bookmark", u, "Gone") /\ UNCHANGED session

\* the action "go" of bookmark_handler
bookmark_go(u, name) ==
    IF name \notin DOMAIN bookmarks
    THEN Reply("bookmark", u, "NotFound") /\ UNCHANGED session
    ELSE IF Exists(fs, bookmarks[name])
    THEN /\ current_dir' = bookmarks[name]
         /\ UNCHANGED <<bookmarks, bookmarks_file>>
         /\ Reply("bookmark", u, "Went")
    ELSE Reply("bookmark", u, "Gone") /\ UNCHANGED session

bookmark_handler(u, args) ==
    /\ Received
    /\ UNCHANGED <<allowed_users, running, host, pending>>
    /\ IF ~CheckAuth(u)
       THEN Reply("bookmark", u, "Denied") /\ UNCHANGED session
       ELSE IF args = <<>>
       THEN Reply("bookmark", u, "Usage") /\ UNCHANGED session
       ELSE LET action == Lower(args[1])
                name == args[2]
            IN  IF action \in {T_add, T_go, T_del} /\ Len(args) < 2
                THEN Reply("bookmark", u, "Usage") /\ UNCHANGED session
                ELSE IF action = T_add
                THEN bookmark_add(u, name)
                ELSE IF action = T_list
                THEN Reply("bookmark", u, "Ok") /\ UNCHANGED session
                ELSE IF action = T_go
                THEN bookmark_go(u, name)
                ELSE IF action = T_del
                THEN IF name \in DOMAIN bookmarks
                     THEN /\ bookmarks' = [n \in DOMAIN bookmarks \ {name} |-> bookmarks[n]]
                          /\ SaveBookmarks(bookmarks')
                          /\ UNCHANGED current_dir
                          /\ Reply("bookmark", u, "Ok")
                     ELSE Reply("bookmark", u, "NotFound") /\ UNCHANGED session
                ELSE Reply("bookmark", u, "BadAction") /\ UNCHANGED session

\* any of the handlers that only read and reply: start, ls, pwd, tree, cat,
\* tail, get, hash, find, search, disk, sys, processes, and logs (whose
\* archive is written to the temporary directory, outside the tree followed
\* here)
read_command(u) ==
    /\ Received
    /\ UNCHANGED <<allowed_users, running, session, host, pending>>
    /\ Reply("read", u, IF CheckAuth(u) THEN "Shown" ELSE "Denied")

(***************************************************************************)
(* Commands that read files: get, cat, tail, hash, find, search.  Besides  *)
(* the kinds of the filesystem above, a file can be one that the bot may   *)
(* not open ("xfile": open raises PermissionError).                        *)
(***************************************************************************)
\* the two checks on the path of a file
FileCheck(f, p) ==
    IF ~Exists(f, p) THEN "NotFound"
    ELSE IF ~IsFile(f, p) THEN "NotFile"
    ELSE "Ok"

\* the file decodes as text to its end
Decodes(name) == ReadLines(FileBytes(name), 1, <<>>, <<>>).ok

get_file(u, args) ==
    /\ Received
    /\ UNCHANGED <<allowed_users, running, session, host, pending>>
    /\ IF ~CheckAuth(u) THEN Reply("get", u, "Denied")
       ELSE IF args = <<>> THEN Reply("get", u, "Usage")
       ELSE LET filepath == InCurrentDir(Join(args, SPACE))
                check == FileCheck(fs, filepath)
            IN  IF check # "Ok" THEN Reply("get", u, check)
                ELSE IF Kind(fs, filepath) = "xfile" THEN Reply("get", u, "Error")
                ELSE \E sent \in BOOLEAN :
                        Reply("get", u, IF sent THEN "Sent" ELSE "Error")

cat_file(u, args) ==
    /\ Received
    /\ UNCHANGED <<allowed_users, running, session, host, pending>>
    /\ IF ~CheckAuth(u) THEN Reply("cat", u, "Denied")
       ELSE IF Len(args) < 1 THEN Reply("cat", u, "Usage")
       ELSE LET filepath == InCurrentDir(Join(args, SPACE))
                check == FileCheck(fs, filepath)
            IN  IF check # "Ok" THEN Reply("cat", u, check)
                ELSE IF Kind(fs, filepath) = "xfile" \/ ~Decodes(BaseName(filepath))
                THEN Reply("cat", u, "Error")
                ELSE Reply("cat", u, "Shown")

tail_file(u, args) ==
    /\ Received
    /\ UNCHANGED <<allowed_users, running, session, host, pending>>
    /\ IF ~CheckAuth(u) THEN Reply("tail", u, "Denied")
       ELSE IF args = <<>> THEN Reply("tail", u, "Usage")
       ELSE LET filepath == InCurrentDir(Join(args, SPACE))
                check == FileCheck(fs, filepath)
            IN  IF check # "Ok" THEN Reply("tail", u, check)
                ELSE IF Kind(fs, filepath) = "xfile" \/ ~Decodes(BaseName(filepath))
                THEN Reply("tail", u, "Error")
                ELSE Reply("tail", u, "Shown")

\* hash: the record of the step holds the two digests of the reply
calculate_hash(u, args) ==
    /\ Received
    /\ UNCHANGED <<allowed_users, running, session, host, pending>>
    /\ IF ~CheckAuth(u) THEN Reply("hash", u, "Denied")
       ELSE IF args = <<>> THEN Reply("hash", u, "Usage")
       ELSE LET filepath == InCurrentDir(Join(args, SPACE))
                check == FileCheck(fs, filepath)
            IN  IF check # "Ok" THEN Reply("hash", u, check)
                ELSE IF Kind(fs, filepath) = "xfile" THEN Reply("hash", u, "Error")
                ELSE LET digests == HashChunks(FileBytes(BaseName(filepath)), 1, 0, 0)
                     IN  last' = [op |-> "hash", admitted |-> Authorized(u),
                                  res |-> "Hashed", btn |-> 0, nth |-> 0,
                                  md5 |-> digests.md5, sha256 |-> digests.sha256]

\* the reply of find and search: the results, or that there are none
Found(op, u, results) ==
    last' = [op |-> op, admitted |-> Authorized(u),
             res |-> IF results = {} THEN "NoResults" ELSE "Found",
             btn |-> 0, nth |-> 0, results |-> results]

search_files(u, args) ==
    /\ Received
    /\ UNCHANGED <<allowed_users, running, session, host, pending>>
    /\ IF ~CheckAuth(u) THEN Reply("find", u, "Denied")
       ELSE IF args = <<>> THEN Reply("find", u, "Usage")
       ELSE Found("find", u, FindResults(fs, current_dir, Lower(Join(args, SPACE))))

search_content(u, args) ==
    /\ Received
    /\ UNCHANGED <<allowed_users, running, session, host, pending>>
    /\ IF ~CheckAuth(u) THEN Reply("search", u, "Denied")
       ELSE IF args = <<>> THEN Reply("search", u, "Usage")
       ELSE Found("search", u, SearchResults(fs, current_dir, Lower(Join(args, SPACE))))

(***************************************************************************)
(* Commands that change the filesystem at once: mkdir, cp, mv.             *)
(***************************************************************************)
\* the command is taken only while its result stays in the universe of the
\* model
FsStep(op, u, out) ==
    /\ WellFormed(out.fs)
    /\ fs' = out.fs
    /\ Reply(op, u, IF out.ok THEN "Ok" ELSE "Error")

\* a faulty create_directory, which enters the directory it has created
create_directory_entering(u, args) ==
    /\ Received
    /\ UNCHANGED <<allowed_users, running, bookmarks, bookmarks_file, procs, pending>>
    /\ IF ~CheckAuth(u)
       THEN Reply("mkdir", u, "Denied") /\ UNCHANGED <<fs, current_dir>>
       ELSE IF args = <<>>
       THEN Reply("mkdir", u, "Usage") /\ UNCHANGED <<fs, current_dir>>
       ELSE LET path == InCurrentDir(Join(args, SPACE))
                out == MakeDirs(fs, path)
            IN  /\ FsStep("mkdir", u, out)
                /\ current_dir' = IF out.ok THEN path ELSE current_dir

\* a faulty create_directory, which does not look for its argument
create_directory_unchecked(u, args) ==
    /\ Received
    /\ UNCHANGED <<allowed_users, running, session, procs, pending>>
    /\ IF ~CheckAuth(u)
       THEN Reply("mkdir", u, "Denied") /\ UNCHANGED fs
       ELSE FsStep("mkdir", u, MakeDirs(fs, InCurrentDir(Join(args, SPACE))))

create_directory(u, args) ==
    /\ Received
    /\ UNCHANGED <<allowed_users, running, session, procs, pending>>
    /\ IF ~CheckAuth(u)
       THEN Reply("mkdir", u, "Denied") /\ UNCHANGED fs
       ELSE IF args = <<>>
       THEN Reply("mkdir", u, "Usage") /\ UNCHANGED fs
       ELSE FsStep("mkdir", u, MakeDirs(fs, InCurrentDir(Join(args, SPACE))))

copy_item(u, args) ==
    /\ Received
    /\ UNCHANGED <<allowed_users, running, session, procs, pending>>
    /\ IF ~CheckAuth(u)
       THEN Reply("cp", u, "Denied") /\ UNCHANGED fs
       ELSE IF Len(args) < 2
       THEN Reply("cp", u, "Usage") /\ UNCHANGED fs
       ELSE LET source_path == InCurrentDir(args[1])
                dest_path == InCurrentDir(args[2])
            IN  IF ~Exists(fs, source_path)
                THEN Reply("cp", u, "NotExists") /\ UNCHANGED fs
                ELSE IF IsDir(fs, source_path)
                THEN FsStep("cp", u, CopyTree(fs, source_path, dest_path))
                ELSE FsStep("cp", u, CopyFile(fs, source_path, dest_path))

move_item(u, args) ==
    /\ Received
    /\ UNCHANGED <<allowed_users, running, session, procs, pending>>
    /\ IF ~CheckAuth(u)
       THEN Reply("mv", u, "Denied") /\ UNCHANGED fs
       ELSE IF Len(args) < 2
       THEN Reply("mv", u, "Usage") /\ UNCHANGED fs
       ELSE LET source_path == InCurrentDir(args[1])
                dest_path == InCurrentDir(args[2])
            IN  IF ~Exists(fs, source_path)
                THEN Reply("mv", u, "NotExists") /\ UNCHANGED fs
                ELSE \E out \in Move(fs, source_path, dest_path) :
                        FsStep("mv", u, out)

\* getzip: the archive is written next to the folder, sent, and removed; when
\* writing or sending raises, the archive stays where it was written
get_zip(u, args) ==
    /\ Received
    /\ UNCHANGED <<allowed_users, running, session, procs, pending>>
    /\ IF ~CheckAuth(u)
       THEN Reply("getzip", u, "Denied") /\ UNCHANGED fs
       ELSE IF Len(args) < 1
       THEN Reply("getzip", u, "Usage") /\ UNCHANGED fs
       ELSE LET folder_name == args[1]
                folder_path == InCurrentDir(folder_name)
                zip_path == InCurrentDir(folder_name \o S_zip)
            IN  IF ~Exists(fs, folder_path)
                THEN Reply("getzip", u, "NotFound") /\ UNCHANGED fs
                ELSE IF IsDir(fs, zip_path) \/ Kind(fs, Parent(zip_path)) # "dir"
                THEN Reply("getzip", u, "Error") /\ UNCHANGED fs
                ELSE \E sent \in BOOLEAN :
                        FsStep("getzip", u,
                               IF sent THEN Outcome(Without(fs, {zip_path}), TRUE)
                               ELSE Outcome((zip_path :> "file") @@ fs, FALSE))

(***************************************************************************)
(* getzip in the steps between its awaits.  While the handler waits for    *)
(* the transport, handlers of other updates can run.                       *)
(***************************************************************************)
\* os.path.join(base, name), as the path it denotes
InDir(base, name) == NormPath(OsPathJoin(PathStr(base), name))

\* the names under which get_zip writes the files of the walk into the
\* archive
ZipEntries(f, folder_path) ==
    {RelPath(q, folder_path) : q \in WalkedFiles(f, folder_path)}

\* a handler of getzip in progress: the step it takes next (pc), its local
\* variables, and, as a record of the run, the current directory of the
\* time it started
ZipRun(pc, folder_name, folder_path, zip_path) ==
    [pc |-> pc, folder_name |-> folder_name, folder_path |-> folder_path,
     zip_path |-> zip_path, started_in |-> current_dir]

\* the record of a step of getzip after the first: the handler that took it
\* and the entries written
ZipStep(z, res, entries) ==
    last' = [op |-> "getzip", admitted |-> TRUE, res |-> res, btn |-> 0,
             nth |-> 0, run |-> z, entries |-> entries]

\* z moves on to step pc, or ends (pc "done")
ZipNext(z, pc) ==
    running' = IF pc = "done" THEN running (-) SetToBag({z})
               ELSE (running (-) SetToBag({z})) (+) SetToBag({[z EXCEPT !.pc = pc]})

\* from the start of the handler to the await of the message "Empacotando"
get_zip_begin(u, args) ==
    /\ Received
    /\ UNCHANGED <<allowed_users, session, host, pending>>
    /\ IF ~CheckAuth(u)
       THEN Reply("getzip", u, "Denied") /\ UNCHANGED running
       ELSE IF Len(args) < 1
       THEN Reply("getzip", u, "Usage") /\ UNCHANGED running
       ELSE LET folder_name == args[1]
                folder_path == InCurrentDir(folder_name)
                zip_path == InCurrentDir(folder_name \o S_zip)
            IN  IF ~Exists(fs, folder_path)
                THEN Reply("getzip", u, "NotFound") /\ UNCHANGED running
                ELSE /\ running' = running (+)
                           SetToBag({ZipRun("pack", folder_name, folder_path, zip_path)})
                     /\ Reply("getzip", u, "Packing")

\* a faulty second step, which reads the current directory anew
get_zip_pack_late(z) ==
    /\ BagIn(z, running)
    /\ z.pc = "pack"
    /\ UNCHANGED <<allowed_users, session, procs, pending, updates>>
    /\ LET zip_path == InCurrentDir(z.folder_name \o S_zip)
           folder_path == InCurrentDir(z.folder_name)
       IN  IF IsDir(fs, zip_path) \/ Kind(fs, Parent(zip_path)) # "dir"
           THEN /\ UNCHANGED fs
                /\ ZipNext(z, "done")
                /\ ZipStep(z, "Error", {})
           ELSE /\ fs' = (zip_path :> "file") @@ fs
                /\ WellFormed(fs')
                /\ ZipNext(z, "open")
                /\ ZipStep(z, "Packed", ZipEntries(fs, folder_path))

\* the archive is created and the files of the walk are written into it, up
\* to the await of the edit of the message
get_zip_pack(z) ==
    /\ BagIn(z, running)
    /\ z.pc = "pack"
    /\ UNCHANGED <<allowed_users, session, procs, pending, updates>>
    /\ IF IsDir(fs, z.zip_path) \/ Kind(fs, Parent(z.zip_path)) # "dir"
       THEN /\ UNCHANGED fs
            /\ ZipNext(z, "done")
            /\ ZipStep(z, "Error", {})
       ELSE /\ fs' = (z.zip_path :> "file") @@ fs
            /\ WellFormed(fs')
            /\ ZipNext(z, "open")
            /\ ZipStep(z, "Packed", ZipEntries(fs, z.folder_path))

\* the archive is opened, up to the await of the sending
get_zip_open(z) ==
    /\ BagIn(z, running)
    /\ z.pc = "open"
    /\ UNCHANGED <<allowed_users, session, host, pending, updates>>
    /\ IF IsFile(fs, z.zip_path)
       THEN ZipNext(z, "remove") /\ ZipStep(z, "Sending", {})
       ELSE ZipNext(z, "done") /\ ZipStep(z, "Error", {})

\* the sending has returned or raised; when it has returned, the archive is
\* removed
get_zip_finish(z) ==
    /\ BagIn(z, running)
    /\ z.pc = "remove"
    /\ UNCHANGED <<allowed_users, session, procs, pending, updates>>
    /\ ZipNext(z, "done")
    /\ \E sent \in BOOLEAN :
          IF sent
          THEN LET out == OsRemove(fs, z.zip_path)
               IN  fs' = out.fs /\ ZipStep(z, IF out.ok THEN "Ok" ELSE "Error", {})
          ELSE UNCHANGED fs /\ ZipStep(z, "Error", {})

(***************************************************************************)
(* rm and kill: the command sends a confirmation message with two inline   *)
(* buttons; the callback of a button does the work.                        *)
(***************************************************************************)
\* a confirmation message: its kind, the callback data of its accept button
\* and whether its keyboard is still shown; and, not state of the program
\* but a record of the run: the target the command named (a path or a
\* process id), how many accepting callbacks of the message have run, how
\* many of them did remove or terminate something, and whether the target
\* was missing when the first of them ran
Button(kind, data, target) ==
    [kind |-> kind, data |-> data, live |-> TRUE,
     target |-> target, runs |-> 0, acted |-> 0, vanished |-> FALSE]

\* a faulty remove_item, which removes the item instead of asking
remove_item_unconfirmed(u, args) ==
    /\ Received
    /\ UNCHANGED <<allowed_users, running, session, procs, pending>>
    /\ IF ~CheckAuth(u)
       THEN Reply("rm", u, "Denied") /\ UNCHANGED fs
       ELSE IF args = <<>>
       THEN Reply("rm", u, "Usage") /\ UNCHANGED fs
       ELSE LET full_path == InCurrentDir(Join(args, SPACE))
            IN  IF ~Exists(fs, full_path)
                THEN Reply("rm", u, "NotExists") /\ UNCHANGED fs
                ELSE \E out \in RemoveOutcomes(fs, full_path) :
                        /\ fs' = out.fs
                        /\ Reply("rm", u, IF out.ok THEN "Removed" ELSE "Error")

remove_item(u, args) ==
    /\ Received
    /\ UNCHANGED <<allowed_users, running, session, host, tasks>>
    /\ IF ~CheckAuth(u)
       THEN Reply("rm", u, "Denied") /\ UNCHANGED buttons
       ELSE IF args = <<>>
       THEN Reply("rm", u, "Usage") /\ UNCHANGED buttons
       ELSE LET path == Join(args, SPACE)
                full_path == InCurrentDir(path)
            IN  IF ~Exists(fs, full_path)
                THEN Reply("rm", u, "NotExists") /\ UNCHANGED buttons
                ELSE /\ buttons' = Append(buttons, Button("rm", S_rm_yes \o path, full_path))
                     /\ last' = Step("rm", Authorized(u), "Confirm", Len(buttons'), 0)

kill_process(u, args) ==
    /\ Received
    /\ UNCHANGED <<allowed_users, running, session, host, tasks>>
    /\ IF ~CheckAuth(u)
       THEN Reply("kill", u, "Denied") /\ UNCHANGED buttons
       ELSE IF args = <<>>
       THEN Reply("kill", u, "Usage") /\ UNCHANGED buttons
       ELSE IF ~IsNumeric(args[1])
       THEN Reply("kill", u, "BadPid") /\ UNCHANGED buttons
       ELSE LET pid == IntOf(args[1])
            IN  IF pid \notin procs
                THEN Reply("kill", u, "NotFound") /\ UNCHANGED buttons
                ELSE /\ buttons' = Append(buttons, Button("kill", S_kill_yes \o StrOf(pid), pid))
                     /\ last' = Step("kill", Authorized(u), "Confirm", Len(buttons'), 0)

\* the data of the reject button of a confirmation message
NoData(kind) == IF kind = "rm" THEN S_rm_no ELSE S_kill_no

\* a callback query: the message whose button was pressed (0 for data the
\* bot never offered) and the data
Task(b, data) == [btn |-> b, data |-> data]

\* a user presses a button of a confirmation message that still shows its
\* keyboard: the callback query is delivered and its handler starts, up to
\* the await of query.answer()
press_button(b, accept) ==
    /\ Received
    /\ b \in 1..Len(buttons)
    /\ buttons[b].live
    /\ tasks' = tasks (+) SetToBag({Task(b, IF accept THEN buttons[b].data
                                            ELSE NoData(buttons[b].kind))})
    /\ last' = Step("press", TRUE, "none", b, 0)
    /\ UNCHANGED <<allowed_users, running, session, host, buttons>>

\* a client sends callback data of its own making
forge_callback(data) ==
    /\ Received
    /\ tasks' = tasks (+) SetToBag({Task(0, data)})
    /\ last' = Step("press", TRUE, "none", 0, 0)
    /\ UNCHANGED <<allowed_users, running, session, host, buttons>>

\* query.edit_message_text: the text replaces the message, and with it the
\* keyboard of the confirmation message goes
EditMessage(b, accepted, acted, missing) ==
    buttons' =
        IF b = 0 THEN buttons
        ELSE [buttons EXCEPT
                ![b].live = FALSE,
                ![b].runs = IF accepted THEN @ + 1 ELSE @,
                ![b].acted = IF acted THEN @ + 1 ELSE @,
                ![b].vanished = IF accepted /\ buttons[b].runs = 0 THEN missing ELSE @]

\* the target of confirmation message b is missing
TargetMissing(b) ==
    /\ b # 0
    /\ IF buttons[b].kind = "rm" THEN ~Exists(fs, buttons[b].target)
       ELSE buttons[b].target \notin procs

\* how many accepting callbacks of message b have run, this one included
Nth(b) == IF b = 0 THEN 0 ELSE buttons[b].runs + 1

\* the path remove_item_callback parses out of the callback data
RmCallbackPath(data) == Join(DropFirst(Split(data, USCORE), 2), SPACE)

\* a faulty remove_item_callback, which does not tell the reject button
\* from the accept button
remove_item_callback_always(t) ==
    /\ BagIn(t, tasks)
    /\ StartsWith(t.data, S_rm)
    /\ tasks' = tasks (-) SetToBag({t})
    /\ UNCHANGED <<allowed_users, running, session, procs, updates>>
    /\ LET full_path == InCurrentDir(RmCallbackPath(t.data))
       IN  \E out \in RemoveOutcomes(fs, full_path) :
              /\ fs' = out.fs
              /\ EditMessage(t.btn, t.data # S_rm_no, out.fs # fs, TargetMissing(t.btn))
              /\ last' = Step("rm_callback", TRUE,
                              IF t.data = S_rm_no THEN "Cancelled"
                              ELSE IF out.ok THEN "Removed" ELSE "Error",
                              t.btn, IF t.data = S_rm_no THEN 0 ELSE Nth(t.btn))

\* the handler of a callback query "rm_...", resumed after query.answer()
remove_item_callback(t) ==
    /\ BagIn(t, tasks)
    /\ StartsWith(t.data, S_rm)
    /\ tasks' = tasks (-) SetToBag({t})
    /\ UNCHANGED <<allowed_users, running, session, procs, updates>>
    /\ IF t.data = S_rm_no
       THEN /\ EditMessage(t.btn, FALSE, FALSE, FALSE)
            /\ UNCHANGED fs
            /\ last' = Step("rm_callback", TRUE, "Cancelled", t.btn, 0)
       ELSE LET full_path == InCurrentDir(RmCallbackPath(t.data))
            IN  \E out \in RemoveOutcomes(fs, full_path) :
                   /\ fs' = out.fs
                   /\ EditMessage(t.btn, TRUE, out.fs # fs, TargetMissing(t.btn))
                   /\ last' = Step("rm_callback", TRUE,
                                   IF out.ok THEN "Removed" ELSE "Error",
                                   t.btn, Nth(t.btn))

\* the process id kill_process_callback parses out of the callback data:
\* int(query.data.split('_')[2]), or -1 where that raises
KillCallbackPid(data) ==
    LET parts == Split(data, USCORE)
    IN  IF Len(parts) >= 3 /\ IsNumeric(parts[3]) THEN IntOf(parts[3]) ELSE -1

\* the handler of a callback query "kill_...", resumed after query.answer()
kill_process_callback(t) ==
    /\ BagIn(t, tasks)
    /\ StartsWith(t.data, S_kill)
    /\ tasks' = tasks (-) SetToBag({t})
    /\ UNCHANGED <<allowed_users, running, session, fs, updates>>
    /\ IF t.data = S_kill_no
       THEN /\ EditMessage(t.btn, FALSE, FALSE, FALSE)
            /\ UNCHANGED procs
            /\ last' = Step("kill_callback", TRUE, "Cancelled", t.btn, 0)
       ELSE LET pid == KillCallbackPid(t.data)
            IN  /\ procs' = procs \ {pid}
                /\ EditMessage(t.btn, TRUE, pid \in procs, TargetMissing(t.btn))
                /\ last' = Step("kill_callback", TRUE,
                                IF pid \in procs THEN "Killed" ELSE "Error",
                                t.btn, Nth(t.btn))

(***************************************************************************)
(* Other processes of the host.                                            *)
(***************************************************************************)
external_delete(p) ==
    /\ Received
    /\ p \in DOMAIN fs
    /\ fs' = Without(fs, Subtree(fs, p))
    /\ last' = Step("external", TRUE, "none", 0, 0)
    /\ UNCHANGED <<allowed_users, running, session, procs, pending>>

external_exit(pid) ==
    /\ Received
    /\ pid \in procs
    /\ procs' = procs \ {pid}
    /\ last' = Step("external", TRUE, "none", 0, 0)
    /\ UNCHANGED <<allowed_users, running, session, fs, pending>>

external_spawn(pid) ==
    /\ Received
    /\ pid \in Pids \ procs
    /\ procs' = procs \cup {pid}
    /\ last' = Step("external", TRUE, "none", 0, 0)
    /\ UNCHANGED <<allowed_users, running, session, fs, pending>>

(***************************************************************************)
(* The specification.                                                      *)
(***************************************************************************)
\* the callers that send updates: with an empty list the handlers treat
\* every caller alike, so one caller stands for all
Callers == IF allowed_users = {} THEN {1} ELSE Users

\* the arguments a caller's command is tried with: a rejected caller's
\* command is refused before its arguments are read
ArgsOf(u, S) == IF CheckAuth(u) THEN S ELSE {<<>>}

Next ==
    \/ \E u \in Callers : \E args \in ArgsOf(u, CdArgs) : change_directory(u, args)
    \/ \E u \in Callers : up_directory(u)
    \/ \E u \in Callers : \E args \in ArgsOf(u, BookmarkArgs) : bookmark_handler(u, args)
    \/ \E u \in Callers : read_command(u)
    \/ \E u \in Callers : \E args \in ArgsOf(u, PathArgs) : create_directory(u, args)
    \/ \E u \in Callers : \E args \in ArgsOf(u, PairArgs) : copy_item(u, args)
    \/ \E u \in Callers : \E args \in ArgsOf(u, PairArgs) : move_item(u, args)
    \/ \E u \in Callers : \E args \in ArgsOf(u, ZipArgs) : get_zip(u, args)
    \/ \E u \in Callers : \E args \in ArgsOf(u, PathArgs) : remove_item(u, args)
    \/ \E u \in Callers : \E args \in ArgsOf(u, KillArgs) : kill_process(u, args)
    \/ \E b \in 1..Len(buttons), accept \in BOOLEAN : press_button(b, accept)
    \/ \E data \in ForgedData : forge_callback(data)
    \/ \E t \in BagToSet(tasks) : remove_item_callback(t)
    \/ \E t \in BagToSet(tasks) : kill_process_callback(t)
    \/ \E p \in DOMAIN fs : external_delete(p)
    \/ \E pid \in Pids : external_exit(pid)
    \/ \E pid \in Pids : external_spawn(pid)

Spec == Init /\ [][Next]_vars

TypeOK ==
    /\ allowed_users \subseteq Users
    /\ WellFormed(fs)
    /\ procs \subseteq Pids
    /\ Len(buttons) + BagCardinality(tasks) <= updates
    /\ updates \in 0..MaxUpdates

(***************************************************************************)
(* The listings of ls and tree, over the contents a directory can have.    *)
(* Besides regular files and directories a directory can hold entries that *)
(* are neither ("other": a dangling symbolic link, a FIFO, a socket).      *)
(***************************************************************************)
N_B == <<"B">>
N_a == <<"a">>

ListPaths ==
    {<<N_B>>, <<N_a>>, <<N_a, N_B>>, <<N_a, N_a>>, <<N_a, N_a, N_a>>}

ListKinds == Kinds \cup {"other"}

\* the directory trees over ListPaths
ListTrees ==
    {[q \in {p \in ListPaths : g[p] # "none"} |-> g[q]] :
        g \in {h \in [ListPaths -> ListKinds \cup {"none"}] :
                  \A p \in ListPaths :
                     (h[p] # "none" /\ Len(p) > 1) =>
                        h[Parent(p)] \in {"dir", "xdir"}}}

\* the depth tree shows when it is given none
DefaultDepth == 3

\* arguments of tree: none, "0", "1", "2", "-1" and "x"
TreeArgs ==
    {<<>>, <<StrOf(0)>>, <<StrOf(1)>>, <<StrOf(2)>>, <<<<"-">> \o StrOf(1)>>,
     <<<<"x">>>>}

\* int(s) succeeds on an optional sign and digits
IsInt(s) == IsNumeric(s) \/ (Len(s) > 1 /\ s[1] = "-" /\ IsNumeric(Tail(s)))

IntValue(s) == IF s[1] = "-" THEN 0 - IntOf(Tail(s)) ELSE IntOf(s)

\* the first line of the reply of tree, the current directory
Header == [path |-> current_dir, level |-> 0, dir |-> TRUE]

\* the reply of ls and tree: the lines shown, in their order
Listed(op, u, lines) ==
    last' = [op |-> op, admitted |-> Authorized(u), res |-> "Listed",
             btn |-> 0, nth |-> 0, lines |-> lines]

\* ls: the reply holds the entries of the current directory in the order
\* of the sort
list_directory(u) ==
    /\ Received
    /\ UNCHANGED <<allowed_users, running, session, host, pending>>
    /\ IF ~CheckAuth(u) THEN Reply("ls", u, "Denied")
       ELSE IF ~Listable(fs, current_dir) THEN Reply("ls", u, "Error")
       ELSE Listed("ls", u, LsListing(fs, current_dir))

\* tree: the reply holds the header and the lines of add_tree
tree(u, args) ==
    /\ Received
    /\ UNCHANGED <<allowed_users, running, session, host, pending>>
    /\ IF ~CheckAuth(u) THEN Reply("tree", u, "Denied")
       ELSE IF args # <<>> /\ ~IsInt(args[1]) THEN Reply("tree", u, "BadDepth")
       ELSE LET max_depth == IF args = <<>> THEN DefaultDepth
                             ELSE IntValue(args[1])
            IN  Listed("tree", u, <<Header>> \o AddTree(fs, current_dir, 1, max_depth))

ListingInit ==
    /\ allowed_users = {1}
    /\ current_dir = Root
    /\ bookmarks = <<>>
    /\ bookmarks_file = <<>>
    /\ fs \in ListTrees
    /\ procs = Pids
    /\ buttons = <<>>
    /\ tasks = EmptyBag
    /\ running = EmptyBag
    /\ last = Step("init", TRUE, "none", 0, 0)
    /\ updates = 0

ListingNext ==
    \/ \E u \in Users : list_directory(u)
    \/ \E u \in Users : \E args \in ArgsOf(u, TreeArgs) : tree(u, args)
    \/ change_directory(1, <<N_a>>)

ListingSpec == ListingInit /\ [][ListingNext]_vars

(***************************************************************************)
(* The commands on their own: every update is a command that one of the    *)
(* callers sends, each handler with the arguments it is given.             *)
(***************************************************************************)
\* the commands the text of start lists
HelpCommands ==
    {"ls", "cd", "up", "pwd", "tree", "get", "getzip", "cat", "tail", "find",
     "search", "bookmark", "disk", "sys", "processes", "kill", "logs", "mkdir",
     "rm", "cp", "mv", "rename", "chmod", "hash"}

\* the commands run registers a handler for
HandledCommands ==
    {"start", "ls", "cd", "up", "pwd", "tree", "get", "getzip", "cat", "tail",
     "find", "search", "bookmark", "disk", "sys", "processes", "kill", "logs",
     "mkdir", "rm", "cp", "mv", "hash"}

\* the commands callers send: those listed, those handled, and one that is
\* neither
SentCommands == HelpCommands \cup HandledCommands \cup {"help"}

\* an update with a command no handler is registered for: the application
\* finds no handler and drops the update; nobody is answered
unhandled_command(name) ==
    /\ Received
    /\ name \notin HandledCommands
    /\ last' = [op |-> "unhandled", admitted |-> TRUE, res |-> "none",
                btn |-> 0, nth |-> 0, name |-> name]
    /\ UNCHANGED <<allowed_users, running, session, host, pending>>

CommandNext ==
    \/ \E u \in Users : \E args \in ArgsOf(u, CdArgs) : change_directory(u, args)
    \/ \E u \in Users : up_directory(u)
    \/ \E u \in Users : \E args \in ArgsOf(u, BookmarkArgs) : bookmark_handler(u, args)
    \/ \E u \in Users : read_command(u)
    \/ \E u \in Users : \E args \in ArgsOf(u, PathArgs) : get_file(u, args)
    \/ \E u \in Users : \E args \in ArgsOf(u, PathArgs) : cat_file(u, args)
    \/ \E u \in Users : \E args \in ArgsOf(u, PathArgs) : tail_file(u, args)
    \/ \E u \in Users : \E args \in ArgsOf(u, PathArgs) : calculate_hash(u, args)
    \/ \E u \in Users : \E args \in ArgsOf(u, TermArgs) : search_files(u, args)
    \/ \E u \in Users : \E args \in ArgsOf(u, TermArgs) : search_content(u, args)
    \/ \E u \in Users : \E args \in ArgsOf(u, PathArgs) : create_directory(u, args)
    \/ \E u \in Users : \E args \in ArgsOf(u, PairArgs) : copy_item(u, args)
    \/ \E u \in Users : \E args \in ArgsOf(u, PairArgs) : move_item(u, args)
    \/ \E u \in Users : \E args \in ArgsOf(u, ZipArgs) : get_zip(u, args)
    \/ \E u \in Users : \E args \in ArgsOf(u, PathArgs) : remove_item(u, args)
    \/ \E u \in Users : \E args \in ArgsOf(u, KillArgs) : kill_process(u, args)
    \/ \E name \in SentCommands : unhandled_command(name)

CommandSpec == Init /\ [][CommandNext]_vars

(***************************************************************************)
(* Restarts: the process ends and the bot is constructed anew.             *)
(***************************************************************************)
\* os.getcwd() of the process, the directory the bot is started in
StartDir == Root

\* __init__ of a later run: the current directory is that of the process
\* again and the bookmarks are read from bookmarks.json, which the run
\* before has left; handlers in progress are lost with the process, the
\* messages sent stay in the chat
restart ==
    /\ Received
    /\ current_dir' = StartDir
    /\ bookmarks' = bookmarks_file
    /\ tasks' = EmptyBag
    /\ running' = EmptyBag
    /\ last' = Step("restart", TRUE, "none", 0, 0)
    /\ UNCHANGED <<allowed_users, bookmarks_file, host, buttons>>

PersistNext ==
    \/ \E u \in Callers : \E args \in ArgsOf(u, CdArgs) : change_directory(u, args)
    \/ \E u \in Callers : up_directory(u)
    \/ \E u \in Callers : \E args \in ArgsOf(u, BookmarkArgs) : bookmark_handler(u, args)
    \/ restart

PersistSpec == Init /\ [][PersistNext]_vars

(***************************************************************************)
(* Archives, searches and digests next to navigation: the steps of getzip  *)
(* interleave with the handlers of other updates.                          *)
(***************************************************************************)
\* the directory trees at start-up: in the second, /d/d is a regular file;
\* in the third, a file /d.zip is there already
ArchiveTrees ==
    {InitFs, (<<N_d, N_d>> :> "file") @@ InitFs, (<<N_d_zip>> :> "file") @@ InitFs}

ArchiveInit ==
    /\ allowed_users = {1}
    /\ current_dir = Root
    /\ bookmarks_file \in StoredBookmarks
    /\ bookmarks = bookmarks_file
    /\ fs \in ArchiveTrees
    /\ procs = Pids
    /\ buttons = <<>>
    /\ tasks = EmptyBag
    /\ running = EmptyBag
    /\ last = Step("init", TRUE, "none", 0, 0)
    /\ updates = 0

ArchiveNext ==
    \/ \E u \in Users : \E args \in ArgsOf(u, ZipArgs) : get_zip_begin(u, args)
    \/ \E z \in BagToSet(running) : get_zip_pack(z)
    \/ \E z \in BagToSet(running) : get_zip_open(z)
    \/ \E z \in BagToSet(running) : get_zip_finish(z)
    \/ \E args \in {<<N_d>>, <<T_dotdot>>} : change_directory(1, args)
    \/ up_directory(1)
    \/ bookmark_handler(1, <<T_go, T_k>>)
    \/ \E args \in {<<N_d>>, <<N_a_b>>} : search_files(1, args)
    \/ \E args \in {<<N_d>>, <<N_a_b>>} : search_content(1, args)
    \/ \E args \in {<<N_d>>, <<N_a_b>>} : calculate_hash(1, args)

ArchiveSpec == ArchiveInit /\ [][ArchiveNext]_vars

(***************************************************************************)
(* search, find and hash over the contents a directory can have: text      *)
(* files, a file with another extension, files with bytes that are no      *)
(* text, files the bot may not open, directories it may not list.          *)
(***************************************************************************)
ContentFiles ==
    {<<N_t_txt>>, <<N_U_TXT>>, <<N_b_bin>>, <<N_p_txt>>, <<N_d, N_t_txt>>, <<N_d, N_q_txt>>}

ContentPaths == ContentFiles \cup {<<N_d>>}

\* the directory trees over ContentPaths; /t.txt is the file that may be
\* closed to the bot
ContentTrees ==
    {[q \in {p \in ContentPaths : g[p] # "none"} |-> g[q]] :
        g \in {h \in [ContentPaths -> {"file", "xfile", "dir", "xdir", "none"}] :
                  /\ h[<<N_d>>] \in {"dir", "xdir", "none"}
                  /\ \A p \in ContentFiles :
                        /\ h[p] \in {"file", "xfile", "none"}
                        /\ h[p] = "xfile" => p = <<N_t_txt>>
                        /\ (h[p] # "none" /\ Len(p) > 1) => h[Parent(p)] # "none"}}

T_todo == <<"t", "o", "d", "o">>
T_TODO == <<"T", "O", "D", "O">>

\* arguments of search: none, "todo", "TODO" and "a todo" (two words)
SearchArgs == {<<>>, <<T_todo>>, <<T_TODO>>, <<N_a, T_todo>>}

\* arguments of find: none, "T" and ".txt"
FindArgs == {<<>>, <<<<"T">>>>, <<SplitExt(N_t_txt)>>}

\* arguments of hash: none, or the name of a file
HashArgs == {<<>>, <<N_t_txt>>, <<N_U_TXT>>, <<N_b_bin>>, <<N_p_txt>>, <<N_d>>}

ContentInit ==
    /\ allowed_users = {1}
    /\ current_dir = Root
    /\ bookmarks = <<>>
    /\ bookmarks_file = <<>>
    /\ fs \in ContentTrees
    /\ procs = Pids
    /\ buttons = <<>>
    /\ tasks = EmptyBag
    /\ running = EmptyBag
    /\ last = Step("init", TRUE, "none", 0, 0)
    /\ updates = 0

ContentNext ==
    \/ \E u \in Users : \E args \in ArgsOf(u, SearchArgs) : search_content(u, args)
    \/ \E u \in Users : \E args \in ArgsOf(u, FindArgs) : search_files(u, args)
    \/ \E u \in Users : \E args \in ArgsOf(u, HashArgs) : calculate_hash(u, args)
    \/ change_directory(1, <<N_d>>)

ContentSpec == ContentInit /\ [][ContentNext]_vars

(***************************************************************************)
(* Symbolic links.  A link points to a directory: the link named l to the  *)
(* directory that holds it ("."), the link named m to the parent of that   *)
(* directory ("..").  The calls of add_tree and the directories of os.walk *)
(* are followed one by one: no other handler runs in between, since the    *)
(* loops hold no await.                                                    *)
(***************************************************************************)
N_l == <<"l">>
N_m == <<"m">>

\* where the link at place p (a path without links) points
LinkTarget(p) == IF BaseName(p) = N_l THEN Parent(p) ELSE Parent(Parent(p))

\* the place the host reaches under path p, every link followed
RECURSIVE RealFrom(_, _, _, _)
RealFrom(f, p, i, cur) ==
    IF i > Len(p) THEN cur
    ELSE LET place == Append(cur, p[i])
         IN  RealFrom(f, p, i + 1,
                      IF Kind(f, place) = "link" THEN LinkTarget(place) ELSE place)

RealPath(f, p) == RealFrom(f, p, 1, <<>>)

\* os.path.islink: the last component of p is a link
IsLink(f, p) ==
    p # Root /\ Kind(f, Append(RealPath(f, Parent(p)), BaseName(p))) = "link"

\* Path.is_dir and os.path.isdir, which follow links
IsDirThrough(f, p) == IsDir(f, RealPath(f, p))

\* the entries of the directory under path p that are directories, links
\* followed, as paths below p and in the order of their names
SubDirs(f, p) ==
    LET here == RealPath(f, p)
        S == {Append(p, BaseName(q)) :
                 q \in IF Listable(f, here) THEN Children(f, here) ELSE {}}
        D == {x \in S : IsDirThrough(f, x)}
    IN  [i \in 1..Cardinality(D) |->
            CHOOSE x \in D :
               Cardinality({y \in D : StrLess(BaseName(y), BaseName(x))}) = i - 1]

\* a call of add_tree or a directory of os.walk that is still to come
Call(path, depth) == [path |-> path, depth |-> depth]

\* a traversal in progress: the calls to come (todo), the directories
\* entered so far, each with the path it was entered by and the place the
\* host reached (visits), and the depth limit of tree
Traversal(pc, op, todo, visits, max_depth) ==
    [pc |-> pc, op |-> op, todo |-> todo, visits |-> visits, max_depth |-> max_depth]

Entered(t, call) ==
    Append(t.visits, [path |-> call.path, real |-> RealPath(fs, call.path)])

\* the reply at the end of a traversal
Walked_(t) ==
    last' = [op |-> t.op, admitted |-> TRUE, res |-> "Walked", btn |-> 0,
             nth |-> 0, visits |-> t.visits, max_depth |-> t.max_depth]

\* tree up to the first call of add_tree
tree_begin(u, args) ==
    /\ running = EmptyBag
    /\ Received
    /\ UNCHANGED <<allowed_users, session, host, pending>>
    /\ IF ~CheckAuth(u) THEN Reply("tree", u, "Denied") /\ UNCHANGED running
       ELSE IF args # <<>> /\ ~IsInt(args[1])
       THEN Reply("tree", u, "BadDepth") /\ UNCHANGED running
       ELSE LET max_depth == IF args = <<>> THEN DefaultDepth
                             ELSE IntValue(args[1])
            IN  /\ running' = SetToBag({Traversal("tree", "tree",
                                  <<Call(current_dir, 1)>>, <<>>, max_depth)})
                /\ Reply("tree", u, "Walking")

\* one call of add_tree: beyond the depth limit it returns at once; else it
\* lists the directory and calls itself for every entry that is a directory
add_tree_step(t) ==
    /\ BagIn(t, running)
    /\ t.pc = "tree"
    /\ t.todo # <<>>
    /\ UNCHANGED <<allowed_users, session, host, pending, last, updates>>
    /\ LET call == Head(t.todo)
           paths == SubDirs(fs, call.path)
       IN  running' = SetToBag({
              IF call.depth > t.max_depth
              THEN [t EXCEPT !.todo = Tail(t.todo)]
              ELSE [t EXCEPT
                      !.todo = [i \in 1..Len(paths) |-> Call(paths[i], call.depth + 1)]
                                  \o Tail(t.todo),
                      !.visits = Entered(t, call)]})

\* find and search up to the start of os.walk
walk_begin(u, op, args) ==
    /\ running = EmptyBag
    /\ Received
    /\ UNCHANGED <<allowed_users, session, host, pending>>
    /\ IF ~CheckAuth(u) THEN Reply(op, u, "Denied") /\ UNCHANGED running
       ELSE IF args = <<>> THEN Reply(op, u, "Usage") /\ UNCHANGED running
       ELSE /\ running' = SetToBag({Traversal("walk", op,
                              <<Call(current_dir, 1)>>, <<>>, 0)})
            /\ Reply(op, u, "Walking")

\* one directory of os.walk: it is listed, and the walk goes on into the
\* entries that are directories and no links
walk_step(t) ==
    /\ BagIn(t, running)
    /\ t.pc = "walk"
    /\ t.todo # <<>>
    /\ UNCHANGED <<allowed_users, session, host, pending, last, updates>>
    /\ LET call == Head(t.todo)
           dirs == SelectSeq(SubDirs(fs, call.path), LAMBDA x : ~IsLink(fs, x))
       IN  running' = SetToBag({
              [t EXCEPT
                 !.todo = [i \in 1..Len(dirs) |-> Call(dirs[i], call.depth + 1)]
                             \o Tail(t.todo),
                 !.visits = Entered(t, call)]})

\* the traversal has no call left: the handler replies and ends
traversal_end(t) ==
    /\ BagIn(t, running)
    /\ t.pc \in {"tree", "walk"}
    /\ t.todo = <<>>
    /\ running' = EmptyBag
    /\ Walked_(t)
    /\ UNCHANGED <<allowed_users, session, host, pending, updates>>

LinkPaths ==
    {<<N_l>>, <<N_m>>, <<N_d>>, <<N_d, N_l>>, <<N_d, N_m>>, <<N_d, N_a_b>>}

\* the directory trees over LinkPaths: l and m are links, d is a directory,
\* a_b a file
LinkTrees ==
    {[q \in S |-> IF BaseName(q) \in {N_l, N_m} THEN "link"
                  ELSE IF q = <<N_d>> THEN "dir" ELSE "file"] :
        S \in {T \in SUBSET LinkPaths :
                  \A p \in T : Len(p) > 1 => Parent(p) \in T}}

LinkInit ==
    /\ allowed_users = {1}
    /\ current_dir = Root
    /\ bookmarks = <<>>
    /\ bookmarks_file = <<>>
    /\ fs \in LinkTrees
    /\ procs = Pids
    /\ buttons = <<>>
    /\ tasks = EmptyBag
    /\ running = EmptyBag
    /\ last = Step("init", TRUE, "none", 0, 0)
    /\ updates = 0

\* the steps a traversal takes by itself
TraversalStep ==
    \E t \in BagToSet(running) :
       add_tree_step(t) \/ walk_step(t) \/ traversal_end(t)

LinkNext ==
    \/ \E u \in Users : \E args \in ArgsOf(u, TreeArgs) : tree_begin(u, args)
    \/ \E u \in Users : \E args \in ArgsOf(u, TermArgs) : walk_begin(u, "find", args)
    \/ \E u \in Users : \E args \in ArgsOf(u, TermArgs) : walk_begin(u, "search", args)
    \/ \E t \in BagToSet(running) : add_tree_step(t)
    \/ \E t \in BagToSet(running) : walk_step(t)
    \/ \E t \in BagToSet(running) : traversal_end(t)
    \/ running = EmptyBag /\ change_directory(1, <<N_d>>)

\* a handler that has begun its loop runs on until it ends
LinkSpec == LinkInit /\ [][LinkNext]_vars /\ WF_vars(TraversalStep)

(***************************************************************************)
(* Callback queries with their sender.  A callback query names the user    *)
(* who pressed the button (update.effective_user): any member of the chat  *)
(* of a confirmation message can press its buttons.  The handlers read the *)
(* sender for the log alone.                                               *)
(***************************************************************************)
\* a callback query delivered, with the user it comes from
QueryTask(u, b, data) == [btn |-> b, data |-> data, from |-> u]

\* user u presses a button of confirmation message b
press_button_by(u, b, accept) ==
    /\ Received
    /\ b \in 1..Len(buttons)
    /\ buttons[b].live
    /\ tasks' = tasks (+) SetToBag({QueryTask(u, b, IF accept THEN buttons[b].data
                                                    ELSE NoData(buttons[b].kind))})
    /\ last' = Step("press", Authorized(u), "none", b, 0)
    /\ UNCHANGED <<allowed_users, running, session, host, buttons>>

\* the client of user u sends callback data of its own making
forge_callback_by(u, data) ==
    /\ Received
    /\ tasks' = tasks (+) SetToBag({QueryTask(u, 0, data)})
    /\ last' = Step("press", Authorized(u), "none", 0, 0)
    /\ UNCHANGED <<allowed_users, running, session, host, buttons>>

CallbackInit ==
    /\ allowed_users = {1}
    /\ current_dir = Root
    /\ bookmarks_file \in StoredBookmarks
    /\ bookmarks = bookmarks_file
    /\ fs = InitFs
    /\ procs = Pids
    /\ buttons = <<>>
    /\ tasks = EmptyBag
    /\ running = EmptyBag
    /\ last = Step("init", TRUE, "none", 0, 0)
    /\ updates = 0

CallbackNext ==
    \/ \E u \in Users : \E args \in ArgsOf(u, PathArgs) : remove_item(u, args)
    \/ \E u \in Users : \E args \in ArgsOf(u, KillArgs) : kill_process(u, args)
    \/ \E u \in Users : \E b \in 1..Len(buttons), accept \in BOOLEAN :
          press_button_by(u, b, accept)
    \/ \E u \in Users : \E data \in ForgedData : forge_callback_by(u, data)
    \/ \E t \in BagToSet(tasks) : remove_item_callback(t)
    \/ \E t \in BagToSet(tasks) : kill_process_callback(t)

CallbackSpec == CallbackInit /\ [][CallbackNext]_vars

(***************************************************************************)
(* Properties.                                                             *)
(***************************************************************************)
CommandOps ==
    {"cd", "up", "bookmark", "read", "mkdir", "cp", "mv", "getzip", "rm", "kill"}

CallbackOps == {"rm_callback", "kill_callback"}

\* the step handles an accepting callback of a confirmation message the bot
\* sent, as the n-th or a later one of that message
AcceptStep(ops, n) ==
    /\ last'.op \in ops
    /\ last'.btn # 0
    /\ last'.nth >= n

\* C1: when the accept callback of an rm confirmation is handled for the
\* second time, the reply is UnknownConfirmation and nothing is deleted,
\* whatever the first one did and whatever was created in between.
C1_SecondAcceptIsUnknown ==
    [][AcceptStep({"rm_callback"}, 2) =>
          (last'.res = "UnknownConfirmation" /\ fs' = fs)]_vars

\* C2: a step of the rm or the kill command handler leaves the filesystem
\* and the process table as they are; what it does is send the confirmation.
C2_RequestChangesNothing ==
    [][last'.op \in {"rm", "kill"} => (fs' = fs /\ procs' = procs)]_vars

\* rm and kill have both asked for a confirmation, and nothing has changed
C2_Witness ==
    /\ last.op = "rm" /\ last.res = "Confirm"
    /\ \E b \in 1..Len(buttons) : buttons[b].kind = "kill"
    /\ fs = InitFs /\ procs = Pids

\* the callback query handled by the step carries data d
Handles(d) ==
    \E t \in BagToSet(tasks) : t.data = d /\ tasks' = tasks (-) SetToBag({t})

\* the bot never offered a button with data d
NeverOffered(d) == \A b \in 1..Len(buttons) : buttons[b].data # d

\* C3: a callback whose data no rm or kill request produced is answered
\* with UnknownConfirmation; it deletes nothing and terminates nothing.
C3_UnknownTokenRejected ==
    [][(last'.op \in CallbackOps /\ last'.btn = 0
          /\ \E d \in ForgedData : Handles(d) /\ NeverOffered(d)) =>
          (last'.res = "UnknownConfirmation" /\ fs' = fs /\ procs' = procs)]_vars

\* C4: handling a rejection (rm_no, kill_no) deletes nothing, terminates
\* nothing and leaves the current directory and the bookmarks unchanged.
C4_RejectChangesNothing ==
    [][(last'.op \in CallbackOps /\ (Handles(S_rm_no) \/ Handles(S_kill_no))) =>
          /\ last'.res = "Cancelled"
          /\ fs' = fs /\ procs' = procs
          /\ current_dir' = current_dir /\ bookmarks' = bookmarks]_vars

\* an rm confirmation was rejected with its target still in place
C4_Witness ==
    /\ last.op = "rm_callback" /\ last.res = "Cancelled" /\ last.btn # 0
    /\ Exists(fs, buttons[last.btn].target)
    /\ buttons[last.btn].runs = 0

\* C5: an accepted rm confirmation deletes exactly the path that was the
\* target when rm was requested: nothing outside of it, and all of it when
\* the reply reports the removal.
C5_DeletesRequestedTarget ==
    [][AcceptStep({"rm_callback"}, 1) =>
          LET target == buttons[last'.btn].target
          IN  /\ (DOMAIN fs \ DOMAIN fs') \subseteq Subtree(fs, target)
              /\ last'.res = "Removed" =>
                    /\ Exists(fs, target)
                    /\ DOMAIN fs' = DOMAIN fs \ Subtree(fs, target)]_vars

\* C6: when the target of an rm confirmation is gone before the accepting
\* callback runs, that callback reports a failure to delete, and a further
\* accepting callback of the confirmation is answered UnknownConfirmation.
C6_VanishedTarget ==
    [][AcceptStep({"rm_callback"}, 1) =>
          /\ (last'.nth = 1 /\ ~Exists(fs, buttons[last'.btn].target)) =>
                (last'.res = "Error" /\ fs' = fs)
          /\ (last'.nth >= 2 /\ buttons[last'.btn].vanished) =>
                last'.res = "UnknownConfirmation"]_vars

\* C7: of the accepting callbacks of one confirmation that were delivered
\* together, one performs the action and every other one is answered
\* UnknownConfirmation: the action of no confirmation is performed twice.
C7_OneResolveWins ==
    /\ \A b \in 1..Len(buttons) : buttons[b].acted <= 1
    /\ (last.op \in CallbackOps /\ last.btn # 0 /\ last.nth >= 2) =>
          last.res = "UnknownConfirmation"

\* C8: a command of a caller the authorization predicate rejects is answered
\* with the refusal and changes nothing: not the session, not the host, and
\* no confirmation is asked for.
C8_UnauthorizedChangesNothing ==
    [][(last'.op \in CommandOps /\ ~last'.admitted) =>
          /\ last'.res = "Denied"
          /\ UNCHANGED <<session, host, pending>>]_vars

\* a rejected caller's mkdir was refused
C8_Witness ==
    /\ last.op = "mkdir" /\ ~last.admitted /\ last.res = "Denied"

\* C9: a command or a confirmation callback that starts with the current
\* directory an existing directory that can be listed completes with the
\* current directory such a directory; it is one at start-up, so it is one
\* whenever a command of a run of commands completes.
C9_CurrentDirIsDirectory ==
    [][(last'.op \in CommandOps \cup CallbackOps /\ Kind(fs, current_dir) = "dir") =>
          Kind(fs', current_dir') = "dir"]_vars

\* C10: cd changes the current directory only when the resolved path exists,
\* is a directory and can be listed, and then to that path; otherwise it
\* replies with the error of the failed check and the current directory
\* stays as it was.
C10_CdChecks ==
    [][(last'.op = "cd" /\ last'.res \notin {"Denied", "Usage"}) =>
          LET p == NormPath(CdTarget(last'.path))
          IN  IF Kind(fs, p) = "dir"
              THEN last'.res = "Ok" /\ current_dir' = p
              ELSE /\ current_dir' = current_dir
                   /\ last'.res = CASE Kind(fs, p) = "none" -> "NotExists"
                                    [] Kind(fs, p) = "file" -> "NotDir"
                                    [] OTHER -> "NoPermission"]_vars

\* cd into a directory that cannot be listed was refused
C10_Witness ==
    /\ last.op = "cd" /\ last.res = "NoPermission"
    /\ current_dir = Root /\ Kind(fs, <<N_a_b>>) = "xdir"

\* C11: up from a directory other than the root whose parent can be read
\* moves to the parent; up at the root is answered with the failure and
\* leaves the current directory as it is.
C11_UpAtRootFails ==
    [][(last'.op = "up" /\ last'.admitted) =>
          IF current_dir = Root
          THEN last'.res = "CannotGoUp" /\ current_dir' = current_dir
          ELSE Kind(fs, Parent(current_dir)) = "dir" =>
                  (last'.res = "Ok" /\ current_dir' = Parent(current_dir))]_vars

\* C12: "bookmark go k" changes nothing of the session when k is no
\* bookmark or the path stored under k does not exist; otherwise it sets the
\* current directory to the stored path and changes nothing else.
C12_BookmarkGoFrame ==
    [][last'.op = "bookmark" =>
          \A u \in Users :
             (Authorized(u) /\ bookmark_handler(u, <<T_go, T_k>>)) =>
                IF T_k \in DOMAIN bookmarks /\ Exists(fs, bookmarks[T_k])
                THEN /\ last'.res = "Went"
                     /\ current_dir' = bookmarks[T_k]
                     /\ UNCHANGED <<bookmarks, bookmarks_file, host, pending>>
                ELSE /\ last'.res \in {"NotFound", "Gone"}
                     /\ UNCHANGED <<session, host, pending>>]_vars

\* "bookmark go k" was refused because the path stored under k is gone, and
\* the session is as it was loaded
C12_Witness ==
    /\ last.op = "bookmark" /\ last.res = "Gone"
    /\ current_dir = Root /\ bookmarks \in StoredBookmarks

\* the other entries of the bookmark mapping stay as they are
OthersKept(name) ==
    /\ DOMAIN bookmarks' \ {name} = DOMAIN bookmarks \ {name}
    /\ \A n \in DOMAIN bookmarks \ {name} : bookmarks'[n] = bookmarks[n]

\* C13: "bookmark add k" stores the current directory of that moment under
\* k, in place of an earlier entry, and keeps every other entry; cd and up
\* leave the mapping as it is; "bookmark del k" removes k and keeps every
\* other entry, and "bookmark go k" with k not in the mapping is answered
\* not found.
C13_BookmarkAddDel ==
    [][/\ last'.op \in {"cd", "up"} => bookmarks' = bookmarks
       /\ last'.op = "bookmark" =>
             \A u \in Users :
                /\ (Authorized(u) /\ bookmark_handler(u, <<T_add, T_k>>)) =>
                      /\ T_k \in DOMAIN bookmarks'
                      /\ bookmarks'[T_k] = current_dir
                      /\ OthersKept(T_k)
                      /\ current_dir' = current_dir
                /\ (Authorized(u) /\ bookmark_handler(u, <<T_del, T_k>>)) =>
                      /\ T_k \notin DOMAIN bookmarks'
                      /\ OthersKept(T_k)
                /\ (Authorized(u) /\ bookmark_handler(u, <<T_go, T_k>>)
                      /\ T_k \notin DOMAIN bookmarks) =>
                      last'.res = "NotFound"]_vars

\* k, stored by an earlier run, was stored anew in another directory, next
\* to the other entry, and a later cd has not altered what is stored
C13_Witness ==
    /\ last.op = "cd" /\ last.res = "Ok" /\ current_dir = Root
    /\ DOMAIN bookmarks = {T_k, T_j}
    /\ bookmarks[T_k] = <<N_d>> /\ bookmarks[T_j] = <<N_d, N_d>>

\* the handlers that are neither navigation nor bookmark commands
OtherOps ==
    {"read", "getzip", "mkdir", "cp", "mv", "rm", "kill"} \cup CallbackOps

\* C14: a step of a handler that is neither a navigation nor a bookmark
\* command leaves the current directory and the bookmark mapping as they
\* are, whatever its outcome.
C14_OnlyNavigationMutatesSession ==
    [][last'.op \in OtherOps =>
          (current_dir' = current_dir /\ bookmarks' = bookmarks)]_vars

\* a confirmation callback has removed the very directory the session is
\* in, and the session still names it
C14_Witness ==
    /\ last.op = "rm_callback" /\ last.res = "Removed"
    /\ current_dir = <<N_d>> /\ ~Exists(fs, current_dir)

\* C15: when getzip returns, on whichever path, the archive it wrote is no
\* longer on disk: no path exists that did not exist before the command.
C15_ArchiveRemoved ==
    [][last'.op = "getzip" => DOMAIN fs' \subseteq DOMAIN fs]_vars

\* C16: the cp and mv commands ask for a confirmation first: the step of
\* the command handler itself leaves the filesystem as it is.
C16_CopyMoveConfirmed ==
    [][last'.op \in {"cp", "mv"} => fs' = fs]_vars

\* the depth that tree applies to its arguments
DepthOf(args) == IF args = <<>> THEN DefaultDepth ELSE IntValue(args[1])

\* C17: tree with depth n shows no entry more than n levels below the
\* current directory, the entries of the current directory being at level
\* 1; with n < 1 it shows the header and nothing else.
C17_TreeDepth ==
    [][(last'.op = "tree" /\ last'.res = "Listed") =>
          \A args \in {a \in TreeArgs : a = <<>> \/ IsInt(a[1])} :
             tree(1, args) =>
                LET lines == last'.lines
                IN  /\ lines[1] = Header
                    /\ \A i \in 2..Len(lines) :
                          /\ IsPrefix(current_dir, lines[i].path)
                          /\ Len(lines[i].path) - Len(current_dir) \in 1..DepthOf(args)
                    /\ DepthOf(args) < 1 => Len(lines) = 1]_vars

\* tree 1 has shown the entries of a directory that holds a directory with
\* entries of its own, and none of these
C17_Witness ==
    /\ last.op = "tree" /\ last.res = "Listed"
    /\ Len(last.lines) = 3
    /\ Kind(fs, <<N_a>>) = "dir" /\ Children(fs, <<N_a>>) # {}
    /\ Exists(fs, <<N_B>>)
    /\ current_dir = Root

\* entry p is listed in its place before entry q: a directory before an
\* entry that is none, and within the directories and within the others the
\* name that is not the greater one, case ignored
DirsFirstOrder(f, p, q) ==
    /\ ~(~IsDir(f, p) /\ IsDir(f, q))
    /\ (IsDir(f, p) = IsDir(f, q)) =>
          ~StrLess(Lower(BaseName(q)), Lower(BaseName(p)))

\* C18: ls shows every entry of the current directory once, all the
\* directories before all the entries that are no directories, and each of
\* the two groups in the order of the names, case ignored.
C18_LsOrder ==
    [][(last'.op = "ls" /\ last'.res = "Listed") =>
          LET lines == last'.lines
          IN  /\ {lines[i] : i \in 1..Len(lines)} = Children(fs, current_dir)
              /\ Len(lines) = Cardinality(Children(fs, current_dir))
              /\ \A i, j \in 1..Len(lines) :
                    i < j => DirsFirstOrder(fs, lines[i], lines[j])]_vars

\* the place of entry p in the listing ls gives of the directory it is in
LsPlace(f, p) ==
    LET listing == LsListing(f, Parent(p))
    IN  CHOOSE i \in 1..Len(listing) : listing[i] = p

\* C19: tree shows the entries of each directory in the order in which ls
\* lists that directory.
C19_TreeOrderAsLs ==
    [][(last'.op = "tree" /\ last'.res = "Listed") =>
          LET lines == last'.lines
          IN  \A i, j \in 2..Len(lines) :
                 (i < j /\ Parent(lines[i].path) = Parent(lines[j].path)) =>
                    LsPlace(fs, lines[i].path) < LsPlace(fs, lines[j].path)]_vars

\* the path a token resolves to against a base, by the rules in their order
Resolved(token, base) ==
    IF token = T_dotdot THEN Parent(base)
    ELSE IF token \in {T_home, T_HOME} THEN HomeDir
    ELSE IF token[1] = SLASH THEN NormPath(token)
    ELSE NormPath(PathStr(base) \o <<SLASH>> \o token)

\* C20: cd resolves its argument by the rules in their order: ".." to the
\* parent of the current directory, "~" and "$HOME" to the home directory,
\* an absolute path to its normalized form whatever the current directory,
\* anything else to the normalized join of current directory and argument.
\* The checks of cd are made on that path, and it is the path cd moves to.
C20_PathResolution ==
    [][(last'.op = "cd" /\ last'.res \notin {"Denied", "Usage"}) =>
          LET p == Resolved(last'.path, current_dir)
          IN  /\ last'.res = CdCheck(fs, p)
              /\ last'.res = "Ok" => current_dir' = p]_vars

\* cd /d/../d has moved to /d
C20_Witness ==
    /\ last.op = "cd" /\ last.res = "Ok" /\ last.path = T_abs_d_up_d
    /\ current_dir = <<N_d>>

\* the step is one of a command that takes arguments, sent by caller u with
\* fewer arguments than the command needs
TooFew(u) ==
    CASE last'.op = "cd" -> change_directory(u, <<>>)
      [] last'.op = "get" -> get_file(u, <<>>)
      [] last'.op = "getzip" -> get_zip(u, <<>>)
      [] last'.op = "cat" -> cat_file(u, <<>>)
      [] last'.op = "tail" -> tail_file(u, <<>>)
      [] last'.op = "mkdir" -> create_directory(u, <<>>)
      [] last'.op = "rm" -> remove_item(u, <<>>)
      [] last'.op = "cp" -> \E args \in {<<>>, <<N_d>>} : copy_item(u, args)
      [] last'.op = "mv" -> \E args \in {<<>>, <<N_d>>} : move_item(u, args)
      [] last'.op = "hash" -> calculate_hash(u, <<>>)
      [] last'.op = "find" -> search_files(u, <<>>)
      [] last'.op = "search" -> search_content(u, <<>>)
      [] last'.op = "kill" -> kill_process(u, <<>>)
      [] last'.op = "bookmark" ->
            \E args \in {<<>>, <<T_add>>, <<T_go>>, <<T_del>>} : bookmark_handler(u, args)
      [] OTHER -> FALSE

\* C21: a command that takes arguments and is sent with too few of them by
\* a caller the bot admits is answered with the usage error; the session,
\* the filesystem, the processes and the confirmations stay as they are.
C21_TooFewArguments ==
    [][\A u \in Users :
          (Authorized(u) /\ TooFew(u)) =>
             (last'.res = "Usage" /\ UNCHANGED <<session, host, pending>>)]_vars

\* cp was sent with one argument, after the directory had been changed
C21_Witness ==
    /\ last.op = "cp" /\ last.res = "Usage"
    /\ current_dir = <<N_d>>

\* C22: every command the text of start lists has a handler: an update
\* that is dropped because no handler is registered for its command is never
\* one of a listed command.
C22_AdvertisedHandled ==
    [][last'.op = "unhandled" => last'.name \notin HelpCommands]_vars

\* the handlers of commands, those that read files included
AllCommandOps == CommandOps \cup {"get", "cat", "tail", "hash", "find", "search"}

\* C23: with an empty list of allowed users check_auth admits every caller,
\* with a list that is not empty exactly the callers on it; and a command is
\* refused exactly when its caller is not admitted in this sense.
C23_Authorization ==
    [][/\ \A u \in Users :
             CheckAuth(u) <=> (IF allowed_users = {} THEN TRUE ELSE u \in allowed_users)
       /\ last'.op \in AllCommandOps =>
             /\ last'.res = "Denied" <=> ~last'.admitted
             /\ allowed_users = {} => last'.res # "Denied"]_vars

\* with the empty list, kill was asked for and the confirmation was sent
C23_Witness ==
    /\ allowed_users = {}
    /\ last.op = "kill" /\ last.res = "Confirm"

\* C24: when bookmark add or del has completed, bookmarks.json holds the
\* mapping as it is in memory; a restart brings back the bookmarks as they
\* were before it and sets the current directory to the start directory.
C24_BookmarksPersist ==
    [][/\ (last'.op = "bookmark" /\ last'.res = "Ok") => bookmarks_file' = bookmarks'
       /\ last'.op = "restart" =>
             (bookmarks' = bookmarks /\ current_dir' = StartDir)]_vars

\* after a restart the bot is in the start directory, and the bookmark k
\* that was added in /d during the run before is there
C24_Witness ==
    /\ last.op = "restart"
    /\ current_dir = StartDir
    /\ T_k \in DOMAIN bookmarks /\ bookmarks[T_k] = <<N_d>>

\* C25: a getzip in progress keeps to the current directory of the time it
\* started, whatever cd, up and bookmark go do while it waits: the files it
\* writes into the archive are those of the source in that directory, and
\* the archive next to it is the one file it creates and removes.  find and
\* search report paths relative to the current directory they walk, and
\* hash gives the digests of a file in the current directory.
C25_CapturedDirectory ==
    [][/\ (last'.op = "getzip" /\ last'.res \in {"Packed", "Sending", "Ok", "Error"}) =>
             LET z == last'.run
                 source == InDir(z.started_in, z.folder_name)
                 archive == InDir(z.started_in, z.folder_name \o S_zip)
             IN  /\ \A p \in DOMAIN fs' \cup DOMAIN fs :
                       (p \notin DOMAIN fs \/ p \notin DOMAIN fs') => p = archive
                 /\ last'.res = "Packed" =>
                       (IsFile(fs', archive) /\ last'.entries = ZipEntries(fs, source))
                 /\ last'.res = "Ok" => ~Exists(fs', archive)
       /\ (last'.op \in {"find", "search"} /\ last'.res = "Found") =>
             \A r \in last'.results : Exists(fs, current_dir \o r.path)
       /\ (last'.op = "hash" /\ last'.res = "Hashed") =>
             \E name \in {N_d, N_a_b} :
                /\ IsFile(fs, InDir(current_dir, name))
                /\ HashChunks(FileBytes(name), 1, 0, 0) =
                      [md5 |-> last'.md5, sha256 |-> last'.sha256]]_vars

\* a getzip that started in / has written /d.zip after a cd to /d
C25_Witness ==
    /\ last.op = "getzip" /\ last.res = "Packed"
    /\ last.run.started_in = Root /\ current_dir = <<N_d>>
    /\ IsFile(fs, <<N_d_zip>>) /\ ~Exists(fs, <<N_d, N_d_zip>>)

\* the lines of a text, each without its line end
TextLines(bytes) ==
    LET parts == Split(bytes, NL)
    IN  IF parts[Len(parts)] = <<>> THEN SubSeq(parts, 1, Len(parts) - 1) ELSE parts

\* the files below top, in directories that can be listed, whose extension
\* is on the list of text extensions, case ignored
Candidates(f, top) ==
    {p \in WalkedFiles(f, top) : Lower(SplitExt(BaseName(p))) \in TextExtensions}

\* reading file p raises a permission error or a decode error at some point
Raises(f, p) ==
    \/ Kind(f, p) = "xfile"
    \/ \E i \in 1..Len(FileBytes(BaseName(p))) : FileBytes(BaseName(p))[i] = BadByte

\* the results due for file p: one for each of its lines that holds the
\* text, case ignored, with the number of the line counted from 1
Matches(p, top, text) ==
    LET lines == TextLines(FileBytes(BaseName(p)))
    IN  {[path |-> RelPath(p, top), line |-> i, text |-> Strip(lines[i])] :
            i \in {j \in 1..Len(lines) : Contains(Lower(lines[j]), Lower(text))}}

\* C26: a file of the walk that raises a decode error or a permission error
\* while it is read has no line among the results of search, and the lines
\* due for every other file with a text extension are among them.
C26_FailingFileSkipped ==
    [][(last'.op = "search" /\ last'.res \in {"Found", "NoResults"}) =>
          \A args \in SearchArgs \ {<<>>} :
             search_content(1, args) =>
                \A p \in Candidates(fs, current_dir) :
                   IF Raises(fs, p)
                   THEN \A r \in last'.results : r.path # RelPath(p, current_dir)
                   ELSE Matches(p, current_dir, Join(args, SPACE)) \subseteq last'.results]_vars

FilesUnder(f, source) ==
    IF IsFile(f, source) THEN {source} ELSE WalkedFiles(f, source)

\* C28: the entries getzip writes are the paths of the files under the
\* source relative to the parent directory of the source: every entry begins
\* with the name of the source, and every file under the source has its
\* entry, also when the source is a regular file.
C28_ArchiveEntries ==
    [][(last'.op = "getzip" /\ last'.res = "Packed") =>
          LET source == last'.run.folder_path
          IN  /\ \A e \in last'.entries : Len(e) > 0 /\ e[1] = BaseName(source)
              /\ \A q \in FilesUnder(fs, source) :
                    RelPath(q, Parent(source)) \in last'.entries]_vars

\* C29: hash replies with the two digests of the whole byte sequence of the
\* file, fed chunk after chunk in the order of the file: the digests depend
\* on nothing but the bytes, so that files of equal content get equal
\* digests; for a path that is missing or no regular file the reply is an
\* error without digests.
C29_HashWholeFile ==
    [][last'.op = "hash" =>
          \A args \in HashArgs \ {<<>>} :
             calculate_hash(1, args) =>
                LET filepath == InDir(current_dir, Join(args, SPACE))
                    bytes == FileBytes(BaseName(filepath))
                IN  /\ ~Exists(fs, filepath) => last'.res = "NotFound"
                    /\ (Exists(fs, filepath) /\ ~IsFile(fs, filepath)) =>
                          last'.res = "NotFile"
                    /\ last'.res # "Hashed" => DOMAIN last' \cap {"md5", "sha256"} = {}
                    /\ last'.res = "Hashed" =>
                          /\ IsFile(fs, filepath)
                          /\ last'.md5 = HexDigest(Md5Update(0, bytes), 2)
                          /\ last'.sha256 = HexDigest(Sha256Update(0, bytes), 4)]_vars

\* t.txt of the directory d, whose length is no multiple of the chunk size,
\* has been hashed
C29_Witness ==
    /\ last.op = "hash" /\ last.res = "Hashed"
    /\ current_dir = <<N_d>>
    /\ Len(FileBytes(N_t_txt)) % ChunkSize # 0
    /\ last.md5 = HexDigest(Md5Update(0, FileBytes(N_t_txt)), 2)
    /\ last.sha256 = HexDigest(Sha256Update(0, FileBytes(N_t_txt)), 4)

\* the visits of directory dir in traversal t that came by a path through
\* a link
ThroughLink(t, dir) ==
    {i \in 1..Len(t.visits) : t.visits[i].real = dir /\ t.visits[i].path # dir}

\* C30: tree, find and search end on every tree of directories, links in a
\* cycle included; find and search enter no directory through a link, and
\* tree enters none through links more often than the depth limit.
C30_TraversalsEnd ==
    /\ [](\A t \in BagToSet(running) :
             \A i \in 1..Len(t.visits) :
                Cardinality(ThroughLink(t, t.visits[i].real))
                   <= IF t.pc = "tree" THEN t.max_depth ELSE 0)
    /\ (running # EmptyBag) ~> (running = EmptyBag)

\* C31: the handler of a callback query that comes from a caller whom the
\* authorization predicate rejects deletes nothing and terminates no
\* process.
C31_RejectedCallbackChangesNothing ==
    [][\A t \in BagToSet(tasks) :
          (/\ ~Authorized(t.from)
           /\ remove_item_callback(t) \/ kill_process_callback(t))
             => UNCHANGED host]_vars

\* C32: no step of getzip changes or removes a file that was there before:
\* the archive is written where no file was, and every other entry of the
\* filesystem stays as it is.
C32_GetzipKeepsFiles ==
    [][(last'.op = "getzip" /\ last'.res \in {"Packed", "Sending", "Ok", "Error"}) =>
          LET z == last'.run
          IN  /\ last'.res = "Packed" => ~Exists(fs, z.zip_path)
              /\ \A p \in DOMAIN fs :
                    p # z.zip_path => (p \in DOMAIN fs' /\ fs'[p] = fs[p])]_vars

=============================================================================
